---------------------------- MODULE Spec2Model ----------------------------
(***************************************************************************)
(* A model of NoteStream's mind-map engine                                 *)
(* (src/src/notestream/mindmap_renderer.py): the outline parser, the tree  *)
(* decorator, the two-sided layout, the flattening, the bounds normaliser  *)
(* and the two renderers, run as a pipeline by one or two invocations.     *)
(*                                                                         *)
(* Text is a sequence of one-character strings.  Lengths (x, y, width,     *)
(* height) are exact rationals kept as integers in units of 1/UNIT pixel;  *)
(* the code computes them in binary floating point, whose rounding is not  *)
(* modelled.                                                               *)
(***************************************************************************)
EXTENDS Integers, Sequences, FiniteSets, TLC

VARIABLES
    pc,         \* pc[i]: the position of invocation i in its entry point
    markdown,   \* markdown[i]: the argument, a sequence of lines
    parsed,     \* parsed[i]: parse_mind_map_markdown's result (MindMapNode heap)
    rtree,      \* rtree[i]: the _RenderNode tree of _decorate_tree, mutated by layout
    nodes,      \* nodes[i]: the PositionedNode list of _collect_nodes
    edges,      \* edges[i]: the edge list of _collect_nodes
    canvas,     \* canvas[i]: (width, height) returned by _normalize_bounds
    result,     \* result[i]: what the entry point returned
    served,     \* served[i]: what the consumer that called the entry point produced
    artifacts,  \* the rows of the artifacts table of the cache
    requests,   \* requests[r]: call r of _get_or_generate_artifact, and where it is
    responses,  \* what the calls have returned so far, in the order of their return
    producer_calls  \* how many times a producer has been awaited to its result

cache_vars == <<artifacts, requests, responses, producer_calls>>

vars == <<pc, markdown, parsed, rtree, nodes, edges, canvas, result, served,
          artifacts, requests, responses, producer_calls>>

Inv == {1, 2}

(***************************************************************************)
(* Program constants (mindmap_renderer.py lines 54-62, 164-167).           *)
(***************************************************************************)
H_STEP == 420
V_GAP == 26
TOP_LEVEL_GAP == 48
MARGIN == 130
MIN_NODE_WIDTH == 135
MAX_NODE_WIDTH == 360
LINE_HEIGHT == 16
NODE_PADDING_X == 28
NODE_PADDING_Y == 14
MIN_NODE_HEIGHT == 40
GLYPH_TENTHS == 68
WRAP_BASE == 24
WRAP_FLOOR == 14
MAX_LINES == 6
TAB_SIZE == 2
INDENT_UNIT == 2
BULLET_INDENT == 14
INDENT_STEP == 8
MAX_INDENT == 84
PAGE_EXTRA_WIDTH == 72
PAGE_EXTRA_HEIGHT == 760

\* One pixel is UNIT model units: 5 makes 6.8 * n / 2 whole, 12 makes the
\* means of up to four (and of two of two) child centres whole.
UNIT == 5 * 12

(***************************************************************************)
(* Bounds of the model.                                                    *)
(***************************************************************************)
MaxBullets == 4     \* longest outline document, in lines
MaxMixed == 4       \* longest document mixing headings, text and bullets
MaxServed == 3      \* longest mixed document handed to a consumer
MaxIndented == 4    \* longest document of variously indented bullets
MaxDepth == 11      \* deepest node of a chain of nested bullets
MaxEscaped == 3     \* longest document of bullets with reserved characters
MaxRequests == 3    \* calls of _get_or_generate_artifact

(***************************************************************************)
(* Arithmetic and sequence helpers.                                        *)
(***************************************************************************)
Max2(a, b) == IF a >= b THEN a ELSE b
Min2(a, b) == IF a <= b THEN a ELSE b

RECURSIVE SumSeq(_)
SumSeq(s) == IF s = <<>> THEN 0 ELSE Head(s) + SumSeq(Tail(s))

RECURSIVE MaxSeq(_)
MaxSeq(s) == IF Len(s) = 1 THEN s[1] ELSE Max2(Head(s), MaxSeq(Tail(s)))

RECURSIVE MinSeq(_)
MinSeq(s) == IF Len(s) = 1 THEN s[1] ELSE Min2(Head(s), MinSeq(Tail(s)))

RECURSIVE Gcd(_, _)
Gcd(a, b) == IF b = 0 THEN a ELSE Gcd(b, a % b)

RECURSIVE Concat(_)
Concat(ss) ==
    IF ss = <<>> THEN <<>>
    ELSE IF Len(ss) = 1 THEN ss[1]
    ELSE LET half == Len(ss) \div 2
         IN  Concat(SubSeq(ss, 1, half)) \o Concat(SubSeq(ss, half + 1, Len(ss)))

Rep(c, n) == [k \in 1..n |-> c]

(***************************************************************************)
(* Text: str.strip, str.split, str.expandtabs and the regular expressions  *)
(* of the parser, on sequences of characters.                              *)
(***************************************************************************)
\* the backquote character, which a string literal of the module cannot hold
Backquote == "bq"

IsSpace(c) == c \in {" ", "\t"}

\* the first position in lo..hi with P, and the last one; 0 when there is none
FirstIn(lo, hi, P(_)) ==
    IF \E k \in lo..hi : P(k)
    THEN CHOOSE k \in lo..hi : P(k) /\ \A j \in lo..(k - 1) : ~P(j)
    ELSE 0

LastIn(lo, hi, P(_)) ==
    IF \E k \in lo..hi : P(k)
    THEN CHOOSE k \in lo..hi : P(k) /\ \A j \in (k + 1)..hi : ~P(j)
    ELSE 0

Has(s, c) == \E k \in 1..Len(s) : s[k] = c

LStrip(s) ==
    LET first == FirstIn(1, Len(s), LAMBDA k : ~IsSpace(s[k]))
    IN  IF first = 0 THEN <<>> ELSE SubSeq(s, first, Len(s))

RStrip(s) ==
    LET last == LastIn(1, Len(s), LAMBDA k : ~IsSpace(s[k]))
    IN  IF last = 0 THEN <<>> ELSE SubSeq(s, 1, last)

Strip(s) == RStrip(LStrip(s))

\* the characters of s at the positions p with Keep(p), in order
KeepAt(s, Keep(_)) ==
    LET at == SelectSeq([k \in 1..Len(s) |-> k], Keep)
    IN  [j \in 1..Len(at) |-> s[at[j]]]

\* the number of leading whitespace characters: group 1 of _BULLET_RE
LeadingWs(s) == Len(s) - Len(LStrip(s))

\* len(prefix.expandtabs(2)): a tab advances to the next multiple of 2
RECURSIVE ExpandTabsLen(_, _)
ExpandTabsLen(s, col) ==
    IF s = <<>> THEN col
    ELSE IF Head(s) = "\t"
         THEN ExpandTabsLen(Tail(s), col + TAB_SIZE - (col % TAB_SIZE))
         ELSE ExpandTabsLen(Tail(s), col + 1)

\* _BULLET_RE: optional whitespace, a '-' or '*' marker, whitespace, the text
BulletMatch(line) ==
    LET k == LeadingWs(line)
    IN  /\ Len(line) >= k + 2
        /\ line[k + 1] \in {"-", "*"}
        /\ IsSpace(line[k + 2])

BulletIndent(line) == ExpandTabsLen(SubSeq(line, 1, LeadingWs(line)), 0)

BulletText(line) == LStrip(SubSeq(line, LeadingWs(line) + 2, Len(line)))

\* the number of leading '#' characters
LeadingHashes(s) ==
    LET other == FirstIn(1, Len(s), LAMBDA k : s[k] # "#")
    IN  IF other = 0 THEN Len(s) ELSE other - 1

\* _HEADING_RE on raw_line.strip(): one to six '#', whitespace, the text
HeadingMatch(line) ==
    LET s == Strip(line)
        h == LeadingHashes(s)
    IN  /\ h >= 1
        /\ h <= 6
        /\ Len(s) > h
        /\ IsSpace(s[h + 1])

HeadingText(line) ==
    LET s == Strip(line)
    IN  LStrip(SubSeq(s, LeadingHashes(s) + 1, Len(s)))

RemoveChar(s, c) == IF ~Has(s, c) THEN s ELSE SelectSeq(s, LAMBDA x : x # c)

\* the first and last position of the run of equal characters around k
RunStart(s, k) == LastIn(1, k - 1, LAMBDA j : s[j] # s[k]) + 1
RunEnd(s, k) ==
    LET next == FirstIn(k + 1, Len(s), LAMBDA j : s[j] # s[k])
    IN  IF next = 0 THEN Len(s) ELSE next - 1

\* str.replace of a doubled character by nothing: the non-overlapping pairs,
\* left to right, go; a run of odd length keeps its last character
RemovePair(s, c) ==
    IF ~Has(s, c) THEN s
    ELSE
    KeepAt(s, LAMBDA k : \/ s[k] # c
                         \/ /\ k = RunEnd(s, k)
                            /\ (k - RunStart(s, k)) % 2 = 0)

\* the position of the first c in s at or after position k, 0 when none
FindFrom(s, c, k) == FirstIn(k, Len(s), LAMBDA j : s[j] = c)

\* the position of the last c in s before position k, 0 when none
FindBefore(s, c, k) == LastIn(1, k - 1, LAMBDA j : s[j] = c)

\* the tag pattern of _clean_text: a '<', one or more characters other than
\* '>', and a '>'; the matches are leftmost and do not overlap, so position
\* k is in one when the first '<' after the last '>' before k is at or
\* before k and is followed by a character other than '>' and, later, by a
\* '>' at or after k
InTag(s, k) ==
    LET close == FindFrom(s, ">", k)
        open == FindFrom(s, "<", FindBefore(s, ">", k) + 1)
    IN  /\ close # 0
        /\ open # 0
        /\ open <= k
        /\ open + 1 < close

RemoveTags(s) == IF ~Has(s, "<") THEN s ELSE KeepAt(s, LAMBDA k : ~InTag(s, k))

\* every run of whitespace becomes one space
CollapseWs(s) ==
    LET firsts == KeepAt(s, LAMBDA k : ~IsSpace(s[k]) \/ k = 1 \/ ~IsSpace(s[k - 1]))
    IN  [k \in 1..Len(firsts) |-> IF IsSpace(firsts[k]) THEN " " ELSE firsts[k]]

\* _clean_text; its link pattern is the identity on the alphabet of the
\* model, which has no brackets
CleanText(text) ==
    LET a == Strip(text)
        b == RemoveChar(a, Backquote)
        c == RemovePair(b, "*")
        d == RemovePair(c, "_")
        e == RemoveChar(d, "*")
        f == RemoveTags(e)
    IN  Strip(CollapseWs(f))


(***************************************************************************)
(* _wrap_text (lines 77-114).                                              *)
(***************************************************************************)
Take(s, n) == SubSeq(s, 1, Min2(n, Len(s)))

\* text[idx : idx + max_chars] for idx in range(0, len(text), max_chars)
Chunks(text, max_chars) ==
    [j \in 1..((Len(text) + max_chars - 1) \div max_chars) |->
        SubSeq(text, (j - 1) * max_chars + 1, Min2(j * max_chars, Len(text)))]

\* str.split(): the maximal runs of characters that are not whitespace
Split(text) ==
    LET starts == SelectSeq([k \in 1..Len(text) |-> k],
                            LAMBDA k : /\ ~IsSpace(text[k])
                                       /\ (k = 1 \/ IsSpace(text[k - 1])))
    IN  [j \in 1..Len(starts) |->
            LET space == FirstIn(starts[j], Len(text), LAMBDA k : IsSpace(text[k]))
            IN  SubSeq(text, starts[j], IF space = 0 THEN Len(text) ELSE space - 1)]

\* the loop over words (lines 91-109); st = [lines, current]
RECURSIVE WrapWords(_, _, _)
WrapWords(words, max_chars, st) ==
    IF words = <<>> THEN st
    ELSE LET word == Head(words)
             candidate == st.current \o <<" ">> \o word
             next ==
                 IF Len(word) > max_chars
                 THEN [lines |-> (IF st.current # <<>>
                                  THEN Append(st.lines, st.current)
                                  ELSE st.lines) \o Chunks(word, max_chars),
                       current |-> <<>>]
                 ELSE IF st.current = <<>>
                 THEN [st EXCEPT !.current = word]
                 ELSE IF Len(candidate) <= max_chars
                 THEN [st EXCEPT !.current = candidate]
                 ELSE [lines |-> Append(st.lines, st.current), current |-> word]
         IN  WrapWords(Tail(words), max_chars, next)

\* a wrapping that keeps every line it made
WrapTextUncapped(raw, max_chars) ==
    LET text == Strip(raw)
    IN  IF text = <<>> THEN << <<>> >>
        ELSE IF FindFrom(text, " ", 1) = 0 /\ Len(text) > max_chars
        THEN Chunks(text, max_chars)
        ELSE LET st == WrapWords(Split(text), max_chars,
                                 [lines |-> <<>>, current |-> <<>>])
             IN  IF st.current # <<>> THEN Append(st.lines, st.current) ELSE st.lines

WrapText(raw, max_chars) ==
    LET text == Strip(raw)
    IN  IF text = <<>> THEN << <<>> >>
        ELSE IF FindFrom(text, " ", 1) = 0 /\ Len(text) > max_chars
        THEN Take(Chunks(text, max_chars), MAX_LINES)
        ELSE LET st == WrapWords(Split(text), max_chars,
                                 [lines |-> <<>>, current |-> <<>>])
                 lines == IF st.current # <<>>
                          THEN Append(st.lines, st.current)
                          ELSE st.lines
             IN  Take(lines, MAX_LINES)

(***************************************************************************)
(* parse_mind_map_markdown (lines 117-154).  A MindMapNode tree is a heap: *)
(* a sequence of [title, children], children being heap indices, and the   *)
(* index of the root; None is the empty heap with root 0.                  *)
(***************************************************************************)
NoStructure == [heap |-> <<>>, root |-> 0]

PseudoTitle == <<"_", "_", "p", "s", "e", "u", "d", "o", "_", "_">>
FallbackTitle == <<"M", "i", "n", "d", " ", "M", "a", "p">>

\* Python truth of an optional string kept as a sequence of 0 or 1 strings
Truthy(opt) == opt # <<>> /\ opt[1] # <<>>

\* lines 121-124: the heading title the scan ends with
RECURSIVE ScanHeading(_, _)
ScanHeading(lines, heading_title) ==
    IF lines = <<>> THEN heading_title
    ELSE ScanHeading(Tail(lines),
             IF HeadingMatch(Head(lines)) /\ ~Truthy(heading_title)
             THEN <<CleanText(HeadingText(Head(lines)))>>
             ELSE heading_title)

\* a scan that keeps the bullets whose cleaned text is empty
RECURSIVE ScanBulletsKeepEmpty(_)
ScanBulletsKeepEmpty(lines) ==
    IF lines = <<>> THEN <<>>
    ELSE LET line == Head(lines)
             rest == ScanBulletsKeepEmpty(Tail(lines))
         IN  IF BulletMatch(line)
             THEN <<[indent |-> BulletIndent(line),
                     text |-> CleanText(BulletText(line))]>> \o rest
             ELSE rest

\* lines 126-133: the (indent, text) pairs of the bullet lines
RECURSIVE ScanBullets(_)
ScanBullets(lines) ==
    IF lines = <<>> THEN <<>>
    ELSE LET line == Head(lines)
             rest == ScanBullets(Tail(lines))
             text == IF BulletMatch(line) THEN CleanText(BulletText(line)) ELSE <<>>
         IN  IF BulletMatch(line) /\ text # <<>>
             THEN <<[indent |-> BulletIndent(line), text |-> text]>> \o rest
             ELSE rest

\* lines 138-139
Normalized(bullets) ==
    LET min_indent == MinSeq([k \in 1..Len(bullets) |-> bullets[k].indent])
    IN  [k \in 1..Len(bullets) |->
            [depth |-> (bullets[k].indent - min_indent) \div INDENT_UNIT,
             text |-> bullets[k].text]]

\* a pop that leaves an entry of the same depth on the stack
RECURSIVE PopStackDeeper(_, _)
PopStackDeeper(stack, depth) ==
    IF Len(stack) > 1 /\ depth < stack[Len(stack)].depth
    THEN PopStackDeeper(SubSeq(stack, 1, Len(stack) - 1), depth)
    ELSE stack

\* line 146-147: pop while the top entry is at least as deep
RECURSIVE PopStack(_, _)
PopStack(stack, depth) ==
    IF Len(stack) > 1 /\ depth <= stack[Len(stack)].depth
    THEN PopStack(SubSeq(stack, 1, Len(stack) - 1), depth)
    ELSE stack

\* lines 144-149: the heap after every bullet is attached
RECURSIVE AttachBullets(_, _, _)
AttachBullets(normalized, heap, stack) ==
    IF normalized = <<>> THEN heap
    ELSE LET b == Head(normalized)
             node == Len(heap) + 1
             st == PopStack(stack, b.depth)
             top == st[Len(st)].node
             grown == Append([heap EXCEPT ![top].children = Append(@, node)],
                             [title |-> b.text, children |-> <<>>])
         IN  AttachBullets(Tail(normalized), grown,
                           Append(st, [depth |-> b.depth, node |-> node]))

\* a result that wraps even a single top-level child
ParseResultAlwaysWrap(heap, heading_title) ==
    [heap |-> Append(heap,
                 [title |-> IF Truthy(heading_title)
                            THEN heading_title[1] ELSE FallbackTitle,
                  children |-> heap[1].children]),
     root |-> Len(heap) + 1]

\* a result whose synthesized root ignores the heading
ParseResultNoHeading(heap, heading_title) ==
    IF Len(heap[1].children) = 1
    THEN [heap |-> heap, root |-> heap[1].children[1]]
    ELSE [heap |-> Append(heap,
                      [title |-> FallbackTitle, children |-> heap[1].children]),
          root |-> Len(heap) + 1]

\* lines 151-154: the single top-level child, or a synthesized root
ParseResult(heap, heading_title) ==
    IF Len(heap[1].children) = 1
    THEN [heap |-> heap, root |-> heap[1].children[1]]
    ELSE [heap |-> Append(heap,
                      [title |-> IF Truthy(heading_title)
                                 THEN heading_title[1] ELSE FallbackTitle,
                       children |-> heap[1].children]),
          root |-> Len(heap) + 1]

\* a parser that answers an outline without bullets with a lone root
ParseNeverNone(lines) ==
    LET bullets == ScanBullets(lines)
    IN  IF bullets = <<>>
        THEN [heap |-> <<[title |-> FallbackTitle, children |-> <<>>]>>, root |-> 1]
        ELSE ParseResult(
                 AttachBullets(Normalized(bullets),
                               <<[title |-> PseudoTitle, children |-> <<>>]>>,
                               <<[depth |-> -1, node |-> 1]>>),
                 ScanHeading(lines, <<>>))

ParseMindMapMarkdown(lines) ==
    LET bullets == ScanBullets(lines)
    IN  IF bullets = <<>> THEN NoStructure
        ELSE ParseResult(
                 AttachBullets(Normalized(bullets),
                               <<[title |-> PseudoTitle, children |-> <<>>]>>,
                               <<[depth |-> -1, node |-> 1]>>),
                 ScanHeading(lines, <<>>))

(***************************************************************************)
(* _decorate_tree (lines 157-180).  A _RenderNode tree is a heap too: a    *)
(* sequence of records in creation order, the root first.                  *)
(***************************************************************************)
\* a counter of the process, which goes on from the nodes decorated so far
ProcessCounter == SumSeq([i \in 1..Cardinality(Inv) |-> Len(rtree[i])])

\* line 158: counter = {"id": 0}, a cell local to one call
NewCounter == 0

\* line 162: counter["id"] += 1
NextIdStuck(counter) == counter
NextId(counter) == counter + 1

\* line 164
MaxChars(depth) == Max2(WRAP_FLOOR, WRAP_BASE - depth)

\* lines 165-166; 6.8 pixels a character
BoxWidth(wrapped) ==
    LET longest == MaxSeq([k \in 1..Len(wrapped) |-> Len(wrapped[k])])
        text_width == (longest * GLYPH_TENTHS * UNIT) \div 10
    IN  Max2(MIN_NODE_WIDTH * UNIT,
             Min2(MAX_NODE_WIDTH * UNIT, text_width + NODE_PADDING_X * UNIT))

\* line 167
BoxHeight(wrapped) ==
    Max2(MIN_NODE_HEIGHT * UNIT, (NODE_PADDING_Y + Len(wrapped) * LINE_HEIGHT) * UNIT)

\* lines 160-178; st = [heap, counter]: the render heap so far and the cell
RECURSIVE Visit(_, _, _, _)
RECURSIVE VisitChildren(_, _, _, _, _)
Visit(mheap, current, depth, st) ==
    LET wrapped == WrapText(mheap[current].title, MaxChars(depth))
        out == [node_id |-> st.counter,
                title |-> mheap[current].title,
                depth |-> depth,
                children |-> <<>>,
                lines |-> wrapped,
                width |-> BoxWidth(wrapped),
                height |-> BoxHeight(wrapped),
                x |-> 0,
                y |-> 0]
    IN  VisitChildren(mheap, mheap[current].children, depth + 1,
                      Len(st.heap) + 1,
                      [heap |-> Append(st.heap, out), counter |-> NextId(st.counter)])

VisitChildren(mheap, kids, depth, parent, st) ==
    IF kids = <<>> THEN st
    ELSE LET child == Len(st.heap) + 1
             visited == Visit(mheap, Head(kids), depth, st)
         IN  VisitChildren(mheap, Tail(kids), depth, parent,
                 [visited EXCEPT !.heap[parent].children = Append(@, child)])

DecorateTree(tree) ==
    Visit(tree.heap, tree.root, 0, [heap |-> <<>>, counter |-> NewCounter]).heap

(***************************************************************************)
(* The layout (lines 189-239, 285-306).                                    *)
(***************************************************************************)
\* a subtree height that leaves the gaps between the children out
RECURSIVE SubtreeHeightNoGap(_, _)
SubtreeHeightNoGap(heap, n) ==
    LET kids == heap[n].children
    IN  IF kids = <<>> THEN heap[n].height
        ELSE Max2(heap[n].height,
                  SumSeq([k \in 1..Len(kids) |-> SubtreeHeightNoGap(heap, kids[k])]))

\* lines 189-194
RECURSIVE SubtreeHeight(_, _)
SubtreeHeight(heap, n) ==
    LET kids == heap[n].children
    IN  IF kids = <<>> THEN heap[n].height
        ELSE Max2(heap[n].height,
                  SumSeq([k \in 1..Len(kids) |-> SubtreeHeight(heap, kids[k])])
                  + V_GAP * UNIT * (Len(kids) - 1))

\* a pass that deals the children out in turn, whatever their heights
RECURSIVE GreedySplitAlternate(_, _, _)
GreedySplitAlternate(heap, children, st) ==
    IF children = <<>> THEN st
    ELSE LET child == Head(children)
             h == SubtreeHeight(heap, child)
         IN  GreedySplitAlternate(heap, Tail(children),
                 IF Len(st.left) <= Len(st.right)
                 THEN [st EXCEPT !.left = Append(@, child), !.left_height = @ + h]
                 ELSE [st EXCEPT !.right = Append(@, child), !.right_height = @ + h])

\* a greedy pass that puts a child at the front of its group
RECURSIVE GreedySplitPrepend(_, _, _)
GreedySplitPrepend(heap, children, st) ==
    IF children = <<>> THEN st
    ELSE LET child == Head(children)
             h == SubtreeHeight(heap, child)
         IN  GreedySplitPrepend(heap, Tail(children),
                 IF st.left_height <= st.right_height
                 THEN [st EXCEPT !.left = <<child>> \o @, !.left_height = @ + h]
                 ELSE [st EXCEPT !.right = <<child>> \o @, !.right_height = @ + h])

\* a greedy pass that sends a child to the right group on a tie
RECURSIVE GreedySplitTieRight(_, _, _)
GreedySplitTieRight(heap, children, st) ==
    IF children = <<>> THEN st
    ELSE LET child == Head(children)
             h == SubtreeHeight(heap, child)
         IN  GreedySplitTieRight(heap, Tail(children),
                 IF st.left_height < st.right_height
                 THEN [st EXCEPT !.left = Append(@, child), !.left_height = @ + h]
                 ELSE [st EXCEPT !.right = Append(@, child), !.right_height = @ + h])

\* lines 203-210; st = [left, right, left_height, right_height]
RECURSIVE GreedySplit(_, _, _)
GreedySplit(heap, children, st) ==
    IF children = <<>> THEN st
    ELSE LET child == Head(children)
             h == SubtreeHeight(heap, child)
         IN  GreedySplit(heap, Tail(children),
                 IF st.left_height <= st.right_height
                 THEN [st EXCEPT !.left = Append(@, child), !.left_height = @ + h]
                 ELSE [st EXCEPT !.right = Append(@, child), !.right_height = @ + h])

\* lines 197-217
SplitTopLevelChildren(heap, children) ==
    LET g == GreedySplit(heap, children,
                 [left |-> <<>>, right |-> <<>>, left_height |-> 0, right_height |-> 0])
        a == IF g.left = <<>>
             THEN [left |-> Take(g.right, 1), right |-> SubSeq(g.right, 2, Len(g.right))]
             ELSE [left |-> g.left, right |-> g.right]
    IN  IF a.right = <<>>
        THEN [left |-> SubSeq(a.left, 2, Len(a.left)), right |-> Take(a.left, 1)]
        ELSE a

\* lines 237, 303: start += child_height + gap
NextStartNoHeight(start, child_height, gap) == start + gap
NextStart(start, child_height, gap) == start + child_height + gap

\* lines 220-239: the heap after node n and its subtree are placed
RECURSIVE PlaceSubtree(_, _, _, _, _)
RECURSIVE PlaceChildren(_, _, _, _, _)
\* a placement that forgets the side when it sets x
PlaceSubtreeNoSide(heap, n, side, depth, center_y) ==
    LET kids == heap[n].children
        at_x == [heap EXCEPT ![n].x = depth * H_STEP * UNIT]
    IN  IF kids = <<>> THEN [at_x EXCEPT ![n].y = center_y]
        ELSE LET total == SumSeq([k \in 1..Len(kids) |-> SubtreeHeight(heap, kids[k])])
                          + V_GAP * UNIT * (Len(kids) - 1)
                 placed == PlaceChildren(at_x, kids, side, depth + 1,
                                         center_y - total \div 2)
                 child_centers == [k \in 1..Len(kids) |-> placed[kids[k]].y]
             IN  [placed EXCEPT ![n].y = SumSeq(child_centers) \div Len(child_centers)]

\* a placement that leaves a node at the centre of its allotted band
PlaceSubtreeBandCentre(heap, n, side, depth, center_y) ==
    LET kids == heap[n].children
        at_x == [heap EXCEPT ![n].x = side * depth * H_STEP * UNIT]
    IN  IF kids = <<>> THEN [at_x EXCEPT ![n].y = center_y]
        ELSE LET total == SumSeq([k \in 1..Len(kids) |-> SubtreeHeight(heap, kids[k])])
                          + V_GAP * UNIT * (Len(kids) - 1)
                 placed == PlaceChildren(at_x, kids, side, depth + 1,
                                         center_y - total \div 2)
             IN  [placed EXCEPT ![n].y = center_y]

PlaceSubtree(heap, n, side, depth, center_y) ==
    LET kids == heap[n].children
        at_x == [heap EXCEPT ![n].x = side * depth * H_STEP * UNIT]
    IN  IF kids = <<>> THEN [at_x EXCEPT ![n].y = center_y]
        ELSE LET total == SumSeq([k \in 1..Len(kids) |-> SubtreeHeight(heap, kids[k])])
                          + V_GAP * UNIT * (Len(kids) - 1)
                 placed == PlaceChildren(at_x, kids, side, depth + 1,
                                         center_y - total \div 2)
                 child_centers == [k \in 1..Len(kids) |-> placed[kids[k]].y]
             IN  [placed EXCEPT ![n].y = SumSeq(child_centers) \div Len(child_centers)]

\* a stacking of the children that starts with the last one
RECURSIVE PlaceChildrenUpwards(_, _, _, _, _)
PlaceChildrenUpwards(heap, kids, side, depth, start) ==
    IF kids = <<>> THEN heap
    ELSE LET child_height == SubtreeHeight(heap, kids[Len(kids)])
         IN  PlaceChildrenUpwards(
                 PlaceSubtree(heap, kids[Len(kids)], side, depth, start + child_height \div 2),
                 SubSeq(kids, 1, Len(kids) - 1), side, depth,
                 NextStart(start, child_height, V_GAP * UNIT))

\* lines 232-237
PlaceChildren(heap, kids, side, depth, start) ==
    IF kids = <<>> THEN heap
    ELSE LET child_height == SubtreeHeight(heap, Head(kids))
         IN  PlaceChildren(
                 PlaceSubtree(heap, Head(kids), side, depth, start + child_height \div 2),
                 Tail(kids), side, depth, NextStart(start, child_height, V_GAP * UNIT))

\* a stacking of the top-level branches with the gap of nested siblings
RECURSIVE PlaceTopLevelNestedGap(_, _, _, _)
PlaceTopLevelNestedGap(heap, children, side, start) ==
    IF children = <<>> THEN heap
    ELSE LET child_h == SubtreeHeight(heap, Head(children))
         IN  PlaceTopLevelNestedGap(
                 PlaceSubtree(heap, Head(children), side, 1, start + child_h \div 2),
                 Tail(children), side, NextStart(start, child_h, V_GAP * UNIT))

\* lines 299-303
RECURSIVE PlaceTopLevel(_, _, _, _)
PlaceTopLevel(heap, children, side, start) ==
    IF children = <<>> THEN heap
    ELSE LET child_h == SubtreeHeight(heap, Head(children))
         IN  PlaceTopLevel(
                 PlaceSubtree(heap, Head(children), side, 1, start + child_h \div 2),
                 Tail(children), side, NextStart(start, child_h, TOP_LEVEL_GAP * UNIT))

\* lines 293-303
PlaceSide(heap, children, side) ==
    IF children = <<>> THEN heap
    ELSE LET total == SumSeq([k \in 1..Len(children) |->
                                 SubtreeHeight(heap, children[k])])
                      + TOP_LEVEL_GAP * UNIT * (Len(children) - 1)
         IN  PlaceTopLevel(heap, children, side, (0 - total) \div 2)

\* lines 287-306: the root at the origin, then the two sides
PlaceTree(heap) ==
    LET at_origin == [heap EXCEPT ![1].x = 0, ![1].y = 0]
    IN  IF heap[1].children = <<>> THEN at_origin
        ELSE LET sides == SplitTopLevelChildren(at_origin, heap[1].children)
             IN  PlaceSide(PlaceSide(at_origin, sides.left, -1), sides.right, 1)

(***************************************************************************)
(* _collect_nodes (lines 242-264) and _normalize_bounds (lines 267-282).   *)
(***************************************************************************)
PositionedNode(r) ==
    [node_id |-> r.node_id, title |-> r.title, lines |-> r.lines, depth |-> r.depth,
     x |-> r.x, y |-> r.y, width |-> r.width, height |-> r.height]

\* st = [nodes, edges]
RECURSIVE Dfs(_, _, _)
RECURSIVE DfsChildren(_, _, _, _)
\* a traversal that lists a node after its descendants
DfsPostOrder(heap, n, st) ==
    LET below == DfsChildren(heap, n, heap[n].children, st)
    IN  [below EXCEPT !.nodes = Append(@, PositionedNode(heap[n]))]

Dfs(heap, n, st) ==
    DfsChildren(heap, n, heap[n].children,
                [st EXCEPT !.nodes = Append(@, PositionedNode(heap[n]))])

DfsChildren(heap, n, kids, st) ==
    IF kids = <<>> THEN st
    ELSE DfsChildren(heap, n, Tail(kids),
             Dfs(heap, Head(kids),
                 [st EXCEPT !.edges =
                     Append(@, <<heap[n].node_id, heap[Head(kids)].node_id>>)]))

CollectNodes(heap) == Dfs(heap, 1, [nodes |-> <<>>, edges |-> <<>>])

Left(n) == n.x - n.width \div 2
Right(n) == n.x + n.width \div 2
Top(n) == n.y - n.height \div 2
Bottom(n) == n.y + n.height \div 2

\* lines 273-274: the translation that brings the least edge to the margin
ShiftNoMargin(least) == 0 - least
Shift(least) == MARGIN * UNIT - least

\* lines 280-281: the canvas extent along one axis
ExtentOneMargin(least, greatest) == (greatest - least) + MARGIN * UNIT
Extent(least, greatest) == (greatest - least) + MARGIN * UNIT * 2

\* a normalization that leaves the first node where it was
NormalizeBoundsSkipFirst(ns) ==
    LET min_x == MinSeq([k \in 1..Len(ns) |-> Left(ns[k])])
        max_x == MaxSeq([k \in 1..Len(ns) |-> Right(ns[k])])
        min_y == MinSeq([k \in 1..Len(ns) |-> Top(ns[k])])
        max_y == MaxSeq([k \in 1..Len(ns) |-> Bottom(ns[k])])
        shift_x == Shift(min_x)
        shift_y == Shift(min_y)
    IN  [nodes |-> [k \in 1..Len(ns) |->
                       IF k = 1 THEN ns[k]
                       ELSE [ns[k] EXCEPT !.x = @ + shift_x, !.y = @ + shift_y]],
         width |-> Extent(min_x, max_x),
         height |-> Extent(min_y, max_y)]

NormalizeBounds(ns) ==
    LET min_x == MinSeq([k \in 1..Len(ns) |-> Left(ns[k])])
        max_x == MaxSeq([k \in 1..Len(ns) |-> Right(ns[k])])
        min_y == MinSeq([k \in 1..Len(ns) |-> Top(ns[k])])
        max_y == MaxSeq([k \in 1..Len(ns) |-> Bottom(ns[k])])
        shift_x == Shift(min_x)
        shift_y == Shift(min_y)
    IN  [nodes |-> [k \in 1..Len(ns) |->
                       [ns[k] EXCEPT !.x = @ + shift_x, !.y = @ + shift_y]],
         width |-> Extent(min_x, max_x),
         height |-> Extent(min_y, max_y)]

(***************************************************************************)
(* Exact fractions, for the scale factor of render_mind_map_drawing.       *)
(***************************************************************************)
Rat(n, d) == LET g == Gcd(n, d) IN [num |-> n \div g, den |-> d \div g]

RatMul(a, b) ==
    LET g1 == Gcd(a.num, b.den)
        g2 == Gcd(b.num, a.den)
    IN  [num |-> (a.num \div g1) * (b.num \div g2),
         den |-> (a.den \div g2) * (b.den \div g1)]

RatDiv(a, b) == RatMul(a, [num |-> b.den, den |-> b.num])

RatLess(a, b) == a.num * b.den < b.num * a.den
RatLeq(a, b) == a.num * b.den <= b.num * a.den

One == [num |-> 1, den |-> 1]

\* a length of the layout, in pixels
Px(units) == Rat(units, UNIT)

\* min(factors): the first least element
RECURSIVE RatMin(_)
RatMin(fs) ==
    IF Len(fs) = 1 THEN fs[1]
    ELSE LET m == RatMin(Tail(fs))
         IN  IF RatLess(m, Head(fs)) THEN m ELSE Head(fs)

(***************************************************************************)
(* The renderers (lines 335-456).                                          *)
(***************************************************************************)
None == [kind |-> "none"]
Pending == [kind |-> "pending"]

\* by_id[node_id] (lines 341, 406)
ById(ns, id) == ns[CHOOSE k \in 1..Len(ns) : ns[k].node_id = id]

\* an escape that leaves the ampersand as it is
EscapeCharKeepAmp(c) ==
    IF c = "<" THEN <<"&", "l", "t", ";">>
    ELSE IF c = ">" THEN <<"&", "g", "t", ";">>
    ELSE <<c>>

\* html.escape(line, quote=False)
EscapeChar(c) ==
    IF c = "&" THEN <<"&", "a", "m", "p", ";">>
    ELSE IF c = "<" THEN <<"&", "l", "t", ";">>
    ELSE IF c = ">" THEN <<"&", "g", "t", ";">>
    ELSE <<c>>

Escape(line) == Concat([k \in 1..Len(line) |-> EscapeChar(line[k])])

\* line 432: y_pdf = layout.height - y_svg - 4
LABEL_DROP == 4

\* lines 376, 429
BaseY(n) == n.y - (Len(n.lines) - 1) * ((LINE_HEIGHT * UNIT) \div 2)

\* lines 343-392: the document, with int() of the canvas as its view box
SvgDocument(ns, es, cv) ==
    [kind |-> "svg",
     view_width |-> cv.width \div UNIT,
     view_height |-> cv.height \div UNIT,
     lines |-> [k \in 1..Len(es) |->
                   [x1 |-> ById(ns, es[k][1]).x, y1 |-> ById(ns, es[k][1]).y,
                    x2 |-> ById(ns, es[k][2]).x, y2 |-> ById(ns, es[k][2]).y]],
     rects |-> [k \in 1..Len(ns) |->
                   [x |-> Left(ns[k]), y |-> Top(ns[k]),
                    width |-> ns[k].width, height |-> ns[k].height]],
     texts |-> [k \in 1..Len(ns) |->
                   [x |-> ns[k].x, y |-> BaseY(ns[k]),
                    dys |-> [j \in 1..Len(ns[k].lines) |->
                                IF j = 1 THEN 0 ELSE LINE_HEIGHT * UNIT],
                    tspans |-> [j \in 1..Len(ns[k].lines) |->
                                   Escape(ns[k].lines[j])]]]]

\* a scale factor that forgets the bound on the height
ScaleFactorWidthOnly(width, height, max_width, max_height) ==
    RatMin(<<One>>
           \o (IF max_width # 0 THEN <<RatDiv(Rat(max_width, 1), width)>> ELSE <<>>))

\* lines 444-450: the scale factor; an absent bound and 0 are both false
ScaleFactor(width, height, max_width, max_height) ==
    RatMin(<<One>>
           \o (IF max_width # 0 THEN <<RatDiv(Rat(max_width, 1), width)>> ELSE <<>>)
           \o (IF max_height # 0 THEN <<RatDiv(Rat(max_height, 1), height)>> ELSE <<>>))

\* a test that lets a factor of 1 or more through to drawing.scale
ShrinksAlways(scale) == TRUE

\* line 451: if scale < 1
Shrinks(scale) == RatLess(scale, One)

\* a drawing whose boxes are put at the mirrored top edge, not the bottom
DrawingBoxAtTop(ns, es, cv, max_width, max_height) ==
    LET width == Px(cv.width)
        height == Px(cv.height)
        scale == IF max_width # 0 \/ max_height # 0
                 THEN ScaleFactor(width, height, max_width, max_height)
                 ELSE One
        shrink == Shrinks(scale)
    IN  [kind |-> "drawing",
         max_width |-> max_width,
         max_height |-> max_height,
         lines |-> [k \in 1..Len(es) |->
                       [x1 |-> ById(ns, es[k][1]).x,
                        y1 |-> cv.height - ById(ns, es[k][1]).y,
                        x2 |-> ById(ns, es[k][2]).x,
                        y2 |-> cv.height - ById(ns, es[k][2]).y]],
         rects |-> [k \in 1..Len(ns) |->
                       [x |-> Left(ns[k]), y |-> cv.height - Top(ns[k]),
                        width |-> ns[k].width, height |-> ns[k].height]],
         labels |-> [k \in 1..Len(ns) |->
                       [j \in 1..Len(ns[k].lines) |->
                           [x |-> ns[k].x,
                            y |-> cv.height
                                  - (BaseY(ns[k]) + (j - 1) * LINE_HEIGHT * UNIT)
                                  - 4 * UNIT,
                            text |-> ns[k].lines[j]]]],
         transform |-> IF shrink THEN <<scale, scale>> ELSE <<>>,
         width |-> IF shrink THEN RatMul(width, scale) ELSE width,
         height |-> IF shrink THEN RatMul(height, scale) ELSE height]

\* lines 408-456: the drawing, its shapes in unscaled coordinates
Drawing(ns, es, cv, max_width, max_height) ==
    LET width == Px(cv.width)
        height == Px(cv.height)
        scale == IF max_width # 0 \/ max_height # 0
                 THEN ScaleFactor(width, height, max_width, max_height)
                 ELSE One
        shrink == Shrinks(scale)
    IN  [kind |-> "drawing",
         max_width |-> max_width,
         max_height |-> max_height,
         lines |-> [k \in 1..Len(es) |->
                       [x1 |-> ById(ns, es[k][1]).x,
                        y1 |-> cv.height - ById(ns, es[k][1]).y,
                        x2 |-> ById(ns, es[k][2]).x,
                        y2 |-> cv.height - ById(ns, es[k][2]).y]],
         rects |-> [k \in 1..Len(ns) |->
                       [x |-> Left(ns[k]), y |-> cv.height - Bottom(ns[k]),
                        width |-> ns[k].width, height |-> ns[k].height]],
         labels |-> [k \in 1..Len(ns) |->
                       [j \in 1..Len(ns[k].lines) |->
                           [x |-> ns[k].x,
                            y |-> cv.height
                                  - (BaseY(ns[k]) + (j - 1) * LINE_HEIGHT * UNIT)
                                  - LABEL_DROP * UNIT,
                            text |-> ns[k].lines[j]]]],
         transform |-> IF shrink THEN <<scale, scale>> ELSE <<>>,
         width |-> IF shrink THEN RatMul(width, scale) ELSE width,
         height |-> IF shrink THEN RatMul(height, scale) ELSE height]

(***************************************************************************)
(* The consumers: render_document_pdf (pdf_renderer.py lines 287-353) for  *)
(* a notes document, and create_notes (api.py lines 87-125).  The lines of *)
(* the model's documents are headings, bullets and paragraphs without      *)
(* backquotes, <br> tags, pairs of star runs, tables, quotes, rules or     *)
(* numbering; _markdown_to_story and _safe_inline are modelled on those.   *)
(***************************************************************************)
NoteStyles == {"cornell", "mind_map", "hierarchical", "custom"}

\* reportlab's A4 in points: 210 mm by 297 mm at 72 / 25.4 points a millimetre
A4 == [width |-> Rat(210 * 720, 254), height |-> Rat(297 * 720, 254)]

RatAdd(a, b) == Rat(a.num * b.den + b.num * a.den, a.den * b.den)
RatMax(a, b) == IF RatLess(a, b) THEN b ELSE a

StartsWith(s, prefix) == Len(s) >= Len(prefix) /\ SubSeq(s, 1, Len(prefix)) = prefix

\* pdf_renderer.py lines 84-96, on text without markup other than & < >
SafeInline(text) == Escape(text)

\* the bullet sign U+2022 that starts a bullet paragraph
BulletSign == "bullet"

Paragraph(style, text, indent) ==
    [kind |-> "paragraph", style |-> style, text |-> text, indent |-> indent]

Spacer(height) == [kind |-> "spacer", height |-> height]

\* pdf_renderer.py lines 155-269: the flowable of one line
LineFlowable(raw) ==
    LET line == RStrip(raw)
    IN  IF Strip(line) = <<>> THEN Spacer(6)
        ELSE IF StartsWith(line, <<"#", "#", "#", " ">>)
        THEN Paragraph("h3", SafeInline(SubSeq(line, 5, Len(line))), 0)
        ELSE IF StartsWith(line, <<"#", "#", " ">>)
        THEN Paragraph("h2", SafeInline(SubSeq(line, 4, Len(line))), 0)
        ELSE IF StartsWith(line, <<"#", " ">>)
        THEN Paragraph("h1", SafeInline(SubSeq(line, 3, Len(line))), 0)
        ELSE IF BulletMatch(line)
        THEN Paragraph("bullet", <<BulletSign, " ">> \o SafeInline(BulletText(line)),
                       Min2(BULLET_INDENT + (BulletIndent(line) \div INDENT_UNIT)
                                            * INDENT_STEP,
                            MAX_INDENT))
        ELSE Paragraph("body", SafeInline(Strip(line)), 0)

\* pdf_renderer.py lines 136-275
MarkdownToStory(lines) == [k \in 1..Len(lines) |-> LineFlowable(lines[k])]

\* pdf_renderer.py lines 298-306: the page grows with the drawing
PageSize(mind_map_drawing) ==
    IF mind_map_drawing = None THEN A4
    ELSE [width |-> RatMax(A4.width,
                           RatAdd(mind_map_drawing.width, Rat(PAGE_EXTRA_WIDTH, 1))),
          height |-> RatMax(A4.height,
                            RatAdd(mind_map_drawing.height, Rat(PAGE_EXTRA_HEIGHT, 1)))]

\* pdf_renderer.py lines 321-332: title, metadata and summary
StoryHead ==
    <<[kind |-> "paragraph", style |-> "title"], Spacer(6),
      [kind |-> "paragraph", style |-> "meta"], [kind |-> "paragraph", style |-> "meta"],
      [kind |-> "paragraph", style |-> "meta"], [kind |-> "paragraph", style |-> "meta"],
      Spacer(12),
      Paragraph("h2", <<"S", "u", "m", "m", "a", "r", "y">>, 0),
      [kind |-> "paragraph", style |-> "body"], Spacer(12)>>

\* a document that leaves the notes out when there is no drawing
NotesBodyNoFallback(note_style, content_markdown, mind_map_drawing) ==
    IF note_style = "mind_map"
    THEN IF mind_map_drawing # None THEN <<mind_map_drawing, Spacer(12)>> ELSE <<>>
    ELSE MarkdownToStory(content_markdown)

\* pdf_renderer.py lines 342-350: the notes below their title
NotesBody(note_style, content_markdown, mind_map_drawing) ==
    IF note_style = "mind_map"
    THEN IF mind_map_drawing # None
         THEN <<mind_map_drawing, Spacer(12)>>
         ELSE MarkdownToStory(content_markdown)
    ELSE MarkdownToStory(content_markdown)

\* pdf_renderer.py lines 287-353 for kind = "notes"
PdfDocument(note_style, content_markdown, mind_map_drawing) ==
    [kind |-> "pdf",
     note_style |-> note_style,
     page_size |-> PageSize(mind_map_drawing),
     head |-> Append(StoryHead, Paragraph("h2", <<"N", "o", "t", "e", "s">>, 0)),
     body |-> NotesBody(note_style, content_markdown, mind_map_drawing)]

\* api.py lines 118-125
NotesResponse(note_style, notes, mind_map_svg) ==
    [kind |-> "notes_response",
     note_style |-> note_style,
     content_markdown |-> notes,
     mind_map_svg |-> mind_map_svg]

(***************************************************************************)
(* The artifact cache: CacheStore (db.py lines 39-51, 89-133) and          *)
(* _get_or_generate_artifact (services.py lines 345-372).                  *)
(***************************************************************************)
\* db.py lines 107, 129: difficulty or ""; "none" stands for None
DifficultyColumn(difficulty) == IF difficulty = "none" THEN "" ELSE difficulty

\* db.py lines 55-58: the digest of the payload, one value per payload
PayloadHash(payload) == <<"sha256", payload>>

\* the columns of the UNIQUE constraint (db.py line 49)
ArtifactKey(video_id, artifact_type, style, difficulty, payload_hash) ==
    [video_id |-> video_id, artifact_type |-> artifact_type, style |-> style,
     difficulty |-> DifficultyColumn(difficulty), payload_hash |-> payload_hash]

\* services.py lines 356, 359: the key a call looks up and stores under
KeyOf(call) ==
    ArtifactKey(call.video_id, call.artifact_type, call.style, call.difficulty,
                PayloadHash(call.payload))

\* db.py lines 89-110: the row of the key, or None; the UNIQUE constraint
\* leaves at most one row for ORDER BY ... LIMIT 1 to choose from
GetArtifact(rows, key) ==
    LET found == {row \in rows : row.key = key}
    IN  IF found = {} THEN None ELSE CHOOSE row \in found : TRUE

\* an insert that replaces the row of the key
PutArtifactReplace(rows, key, content) ==
    {row \in rows : row.key # key} \cup {[key |-> key, content |-> content]}

\* db.py lines 112-131: INSERT OR IGNORE under the UNIQUE constraint
PutArtifact(rows, key, content) ==
    IF \E row \in rows : row.key = key THEN rows
    ELSE rows \cup {[key |-> key, content |-> content]}

\* the arguments of the calls: generate_notes for two styles and
\* generate_quiz (services.py lines 421-429, 465-473), each forced or not
ArtifactCalls ==
    { [video_id |-> "v", artifact_type |-> "notes", style |-> "mind_map",
       difficulty |-> "none", payload |-> "mind_map", force_refresh |-> f] : f \in BOOLEAN }
    \cup
    { [video_id |-> "v", artifact_type |-> "quiz", style |-> "multiple_choice",
       difficulty |-> "medium", payload |-> "multiple_choice", force_refresh |-> f] :
      f \in BOOLEAN }

Req == 1..MaxRequests

NotCalled == [at |-> "not called"]

(***************************************************************************)
(* The inputs of the model.                                                *)
(***************************************************************************)
Word == Rep("a", 20)
TitleShort == <<"a">>
TitleTwo == Word \o <<" ">> \o Word
TitleSix == Word \o <<" ">> \o Word \o <<" ">> \o Word \o <<" ">> \o Word
            \o <<" ">> \o Word \o <<" ">> \o Word

Bullet(indent, title) == Rep(" ", indent) \o <<"-", " ">> \o title

OutlineLines ==
    { Bullet(0, TitleShort), Bullet(0, TitleTwo),
      Bullet(2, TitleShort), Bullet(2, TitleSix),
      Bullet(4, TitleShort), Bullet(4, TitleTwo) }

MixedLines ==
    { <<"#", " ", "T">>,
      <<"#", " ", "*", "*">>,
      <<"t", "e", "x", "t">>,
      <<"-", " ", "a">>,
      <<"\t", "*", " ", "c", "<", "d">>,
      <<"-", " ", "*", "*">> }

SeqsUpTo(S, n) == UNION {[1..k -> S] : k \in 0..n}

Docs == SeqsUpTo(OutlineLines, MaxBullets) \cup SeqsUpTo(MixedLines, MaxMixed)

\* the documents of two concurrent invocations
PairDocs ==
    { <<Bullet(0, TitleShort)>>,
      <<Bullet(0, TitleShort), Bullet(0, TitleTwo)>>,
      <<Bullet(0, TitleSix), Bullet(2, TitleShort), Bullet(2, TitleTwo)>>,
      <<Bullet(0, TitleShort), Bullet(2, TitleSix), Bullet(4, TitleShort),
        Bullet(4, TitleTwo)>>,
      << <<"#", " ", "T">>, Bullet(0, TitleShort), Bullet(2, TitleTwo),
         Bullet(0, TitleTwo), Bullet(0, TitleShort)>>,
      << <<"t", "e", "x", "t">> >> }

\* bullets indented by 0, 1, 3, 4 and, with a tab, 2 columns, and a bullet
\* whose text is only emphasis markers
IndentedLines ==
    { <<"-", " ", "*", "*">>,
      <<"-", " ", "a">>,
      <<" ", "-", " ", "b">>,
      <<" ", "\t", "-", " ", "c">>,
      <<" ", " ", " ", "*", " ", "d">>,
      <<" ", " ", " ", " ", "-", " ", "e">> }

IndentedDocs == SeqsUpTo(IndentedLines, MaxIndented)

\* bullets whose text holds the characters the vector graphic reserves: alone,
\* as an entity already written out, as a tag, and as an empty pair of brackets
EscapeLines ==
    { <<"-", " ", "a", "&", "b">>,
      <<"-", " ", "c", "<", "d">>,
      <<"-", " ", "x", ">", "y">>,
      <<"-", " ", "&", "l", "t", ";">>,
      <<"-", " ", "<", "i", ">", "t", "<", "/", "i", ">">>,
      <<"-", " ", "<", ">">> }

EscapeDocs == SeqsUpTo(EscapeLines, MaxEscaped)

\* a title of n letters without a space, and one of words of the given lengths
Letters == <<"a", "b", "c", "d", "e", "f", "g", "h", "i", "j">>
Unbroken(n) == [k \in 1..n |-> Letters[((k - 1) % Len(Letters)) + 1]]
Words(lens) ==
    Concat([k \in 1..Len(lens) |->
               (IF k = 1 THEN <<>> ELSE <<" ">>) \o Unbroken(lens[k])])

\* titles around the wrap widths 24 and 14 and the cap of 6 lines
WrapTitles ==
    { Unbroken(1), Unbroken(14), Unbroken(24), Unbroken(25), Unbroken(40),
      Unbroken(84), Unbroken(85), Unbroken(150),
      Words(<<3, 30, 5>>), Words(<<14, 14>>), Words(<<24, 1>>),
      Words(<<10, 10, 10, 10, 10, 10, 10, 10>>),
      Words(<<4, 4, 4, 4, 4, 4, 4, 4, 4, 4, 4, 4, 4>>) }

\* a chain of nested bullets, one at each depth 0..depth, all titled alike
ChainDoc(title, depth) == [k \in 1..(depth + 1) |-> Bullet(INDENT_UNIT * (k - 1), title)]

WrapDocs == {ChainDoc(title, depth) : title \in WrapTitles, depth \in {0, MaxDepth}}

\* the notes handed to the consumers
ServedDocs == SeqsUpTo(MixedLines, MaxServed) \cup PairDocs

\* the bounds a caller passes; 0 stands for an absent (or zero) bound, and
\* 395 by 300 is the canvas of a lone node with a one-letter title
MaxWidths == {0, 395, 3000}
MaxHeights == {0, 300, 3000}

(***************************************************************************)
(* The state machine: each invocation runs one entry point,                *)
(* render_mind_map_svg or render_mind_map_drawing, stage by stage.         *)
(***************************************************************************)
Idle ==
    /\ parsed = [i \in Inv |-> NoStructure]
    /\ rtree = [i \in Inv |-> <<>>]
    /\ nodes = [i \in Inv |-> <<>>]
    /\ edges = [i \in Inv |-> <<>>]
    /\ canvas = [i \in Inv |-> [width |-> 0, height |-> 0]]
    /\ result = [i \in Inv |-> Pending]
    /\ served = [i \in Inv |-> Pending]
    /\ artifacts = {}
    /\ requests = [r \in Req |-> NotCalled]
    /\ responses = <<>>
    /\ producer_calls = 0

\* one invocation, on any document
Init ==
    /\ pc = [i \in Inv |-> IF i = 1 THEN "start" ELSE "off"]
    /\ \E doc \in Docs : markdown = [i \in Inv |-> IF i = 1 THEN doc ELSE <<>>]
    /\ Idle

\* one invocation on behalf of a consumer
InitServed ==
    /\ pc = [i \in Inv |-> IF i = 1 THEN "start" ELSE "off"]
    /\ \E doc \in ServedDocs : markdown = [i \in Inv |-> IF i = 1 THEN doc ELSE <<>>]
    /\ Idle

\* one invocation, on a chain of bullets with a title to wrap
InitWrap ==
    /\ pc = [i \in Inv |-> IF i = 1 THEN "start" ELSE "off"]
    /\ \E doc \in WrapDocs : markdown = [i \in Inv |-> IF i = 1 THEN doc ELSE <<>>]
    /\ Idle

\* one invocation, on bullets with reserved characters in their text
InitEscape ==
    /\ pc = [i \in Inv |-> IF i = 1 THEN "start" ELSE "off"]
    /\ \E doc \in EscapeDocs : markdown = [i \in Inv |-> IF i = 1 THEN doc ELSE <<>>]
    /\ Idle

\* no invocation of the renderer: the calls of the artifact cache alone
InitCache ==
    /\ pc = [i \in Inv |-> "off"]
    /\ markdown = [i \in Inv |-> <<>>]
    /\ Idle

\* one invocation, on variously indented bullets
InitOutline ==
    /\ pc = [i \in Inv |-> IF i = 1 THEN "start" ELSE "off"]
    /\ \E doc \in IndentedDocs : markdown = [i \in Inv |-> IF i = 1 THEN doc ELSE <<>>]
    /\ Idle

\* two concurrent invocations
InitPair ==
    /\ pc = [i \in Inv |-> "start"]
    /\ markdown \in [Inv -> PairDocs]
    /\ Idle

\* lines 336-338, 401-403: parse, and return None when nothing was found
Parse(i) ==
    /\ pc[i] = "start"
    /\ parsed' = [parsed EXCEPT ![i] = ParseMindMapMarkdown(markdown[i])]
    /\ IF parsed'[i] = NoStructure
       THEN /\ result' = [result EXCEPT ![i] = None]
            /\ pc' = [pc EXCEPT ![i] = "done"]
       ELSE /\ pc' = [pc EXCEPT ![i] = "parsed"]
            /\ UNCHANGED result
    /\ UNCHANGED <<markdown, rtree, nodes, edges, canvas, served, cache_vars>>

\* line 286
Decorate(i) ==
    /\ pc[i] = "parsed"
    /\ rtree' = [rtree EXCEPT ![i] = DecorateTree(parsed[i])]
    /\ pc' = [pc EXCEPT ![i] = "decorated"]
    /\ UNCHANGED <<markdown, parsed, nodes, edges, canvas, result, served, cache_vars>>

\* lines 287-306
Place(i) ==
    /\ pc[i] = "decorated"
    /\ rtree' = [rtree EXCEPT ![i] = PlaceTree(rtree[i])]
    /\ pc' = [pc EXCEPT ![i] = "placed"]
    /\ UNCHANGED <<markdown, parsed, nodes, edges, canvas, result, served, cache_vars>>

\* line 308
Collect(i) ==
    /\ pc[i] = "placed"
    /\ nodes' = [nodes EXCEPT ![i] = CollectNodes(rtree[i]).nodes]
    /\ edges' = [edges EXCEPT ![i] = CollectNodes(rtree[i]).edges]
    /\ pc' = [pc EXCEPT ![i] = "collected"]
    /\ UNCHANGED <<markdown, parsed, rtree, canvas, result, served, cache_vars>>

\* lines 309-311
Normalize(i) ==
    /\ pc[i] = "collected"
    /\ nodes' = [nodes EXCEPT ![i] = NormalizeBounds(nodes[i]).nodes]
    /\ canvas' = [canvas EXCEPT ![i] =
                     [width |-> NormalizeBounds(nodes[i]).width,
                      height |-> NormalizeBounds(nodes[i]).height]]
    /\ pc' = [pc EXCEPT ![i] = "normalized"]
    /\ UNCHANGED <<markdown, parsed, rtree, edges, result, served, cache_vars>>

\* lines 341-392
RenderSvg(i) ==
    /\ pc[i] = "normalized"
    /\ result' = [result EXCEPT ![i] = SvgDocument(nodes[i], edges[i], canvas[i])]
    /\ pc' = [pc EXCEPT ![i] = "done"]
    /\ UNCHANGED <<markdown, parsed, rtree, nodes, edges, canvas, served, cache_vars>>

\* lines 406-456
RenderDrawing(i) ==
    /\ pc[i] = "normalized"
    /\ \E max_width \in MaxWidths, max_height \in MaxHeights :
          result' = [result EXCEPT ![i] =
                        Drawing(nodes[i], edges[i], canvas[i], max_width, max_height)]
    /\ pc' = [pc EXCEPT ![i] = "done"]
    /\ UNCHANGED <<markdown, parsed, rtree, nodes, edges, canvas, served, cache_vars>>

Next ==
    \E i \in Inv :
        \/ Parse(i)
        \/ Decorate(i)
        \/ Place(i)
        \/ Collect(i)
        \/ Normalize(i)
        \/ RenderSvg(i)
        \/ RenderDrawing(i)

Spec == Init /\ [][Next]_vars

SpecPair == InitPair /\ [][Next]_vars

SpecWrap == InitWrap /\ [][Next]_vars

SpecOutline == InitOutline /\ [][Next]_vars

SpecEscape == InitEscape /\ [][Next]_vars

\* api.py lines 114-125 for a mind-map request: the response once
\* render_mind_map_svg has returned
CreateNotes(i) ==
    /\ pc[i] = "done"
    /\ result[i].kind \in {"svg", "none"}
    /\ served' = [served EXCEPT ![i] = NotesResponse("mind_map", markdown[i], result[i])]
    /\ pc' = [pc EXCEPT ![i] = "served"]
    /\ UNCHANGED <<markdown, parsed, rtree, nodes, edges, canvas, result, cache_vars>>

\* api.py lines 114-125 for another style: no renderer is called
CreateNotesPlain(i) ==
    /\ pc[i] = "start"
    /\ \E note_style \in NoteStyles \ {"mind_map"} :
          served' = [served EXCEPT ![i] = NotesResponse(note_style, markdown[i], None)]
    /\ pc' = [pc EXCEPT ![i] = "served"]
    /\ UNCHANGED <<markdown, parsed, rtree, nodes, edges, canvas, result, cache_vars>>

\* pdf_renderer.py lines 297-353 for mind-map notes: the document once
\* render_mind_map_drawing, called without bounds, has returned
RenderDocumentPdf(i) ==
    /\ pc[i] = "done"
    /\ \/ result[i] = None
       \/ /\ result[i].kind = "drawing"
          /\ result[i].max_width = 0
          /\ result[i].max_height = 0
    /\ served' = [served EXCEPT ![i] = PdfDocument("mind_map", markdown[i], result[i])]
    /\ pc' = [pc EXCEPT ![i] = "served"]
    /\ UNCHANGED <<markdown, parsed, rtree, nodes, edges, canvas, result, cache_vars>>

\* pdf_renderer.py lines 297-353 for notes of another style, or of none
RenderDocumentPdfPlain(i) ==
    /\ pc[i] = "start"
    /\ \E note_style \in (NoteStyles \ {"mind_map"}) \cup {"none"} :
          served' = [served EXCEPT ![i] = PdfDocument(note_style, markdown[i], None)]
    /\ pc' = [pc EXCEPT ![i] = "served"]
    /\ UNCHANGED <<markdown, parsed, rtree, nodes, edges, canvas, result, cache_vars>>

\* the entry points together with the consumers that call them
NextServed ==
    \/ Next
    \/ \E i \in Inv :
          \/ CreateNotes(i)
          \/ CreateNotesPlain(i)
          \/ RenderDocumentPdf(i)
          \/ RenderDocumentPdfPlain(i)

SpecServed == InitServed /\ [][NextServed]_vars

\* services.py lines 355-361: a call arrives; it returns the cached row's
\* content at once when it is not forced and the row is there, and otherwise
\* goes on to await its producer.  Calls are numbered in the order they arrive.
CallArtifact(r) ==
    /\ requests[r] = NotCalled
    /\ \A q \in 1..(r - 1) : requests[q] # NotCalled
    /\ \E call \in ArtifactCalls :
          LET cached_row == GetArtifact(artifacts, KeyOf(call))
          IN  IF ~call.force_refresh /\ cached_row # None
              THEN /\ requests' = [requests EXCEPT ![r] = [at |-> "returned", call |-> call]]
                   /\ responses' = Append(responses,
                          [request |-> r, content |-> cached_row.content, cached |-> TRUE])
              ELSE /\ requests' = [requests EXCEPT ![r] = [at |-> "producer", call |-> call]]
                   /\ UNCHANGED responses
    /\ UNCHANGED <<pc, markdown, parsed, rtree, nodes, edges, canvas, result, served,
                   artifacts, producer_calls>>

\* services.py lines 363-372: the producer's result arrives; it is put in the
\* cache and returned.  The n-th result of a producer is the content n.
ProducerReturns(r) ==
    /\ requests[r].at = "producer"
    /\ producer_calls' = producer_calls + 1
    /\ artifacts' = PutArtifact(artifacts, KeyOf(requests[r].call), producer_calls')
    /\ requests' = [requests EXCEPT ![r].at = "returned"]
    /\ responses' = Append(responses,
           [request |-> r, content |-> producer_calls', cached |-> FALSE])
    /\ UNCHANGED <<pc, markdown, parsed, rtree, nodes, edges, canvas, result, served>>

\* services.py line 363: the producer raises, and so does the call
ProducerRaises(r) ==
    /\ requests[r].at = "producer"
    /\ requests' = [requests EXCEPT ![r].at = "raised"]
    /\ UNCHANGED <<pc, markdown, parsed, rtree, nodes, edges, canvas, result, served,
                   artifacts, responses, producer_calls>>

\* db.py lines 132-133: the insert fails with sqlite3.Error, which is logged;
\* the content is returned all the same
PutArtifactFails(r) ==
    /\ requests[r].at = "producer"
    /\ producer_calls' = producer_calls + 1
    /\ requests' = [requests EXCEPT ![r].at = "returned"]
    /\ responses' = Append(responses,
           [request |-> r, content |-> producer_calls', cached |-> FALSE])
    /\ UNCHANGED <<pc, markdown, parsed, rtree, nodes, edges, canvas, result, served,
                   artifacts>>

NextCache ==
    \E r \in Req :
        \/ CallArtifact(r)
        \/ ProducerReturns(r)
        \/ ProducerRaises(r)
        \/ PutArtifactFails(r)

SpecCache == InitCache /\ [][NextCache]_vars

(***************************************************************************)
(* Properties.                                                             *)
(***************************************************************************)
Started == {i \in Inv : pc[i] # "off"}

\* invocation i holds its final layout: the normalised node list
HasLayout(i) == pc[i] \in {"normalized", "done"} /\ nodes[i] # <<>>

Pairs(ns) == {p \in (1..Len(ns)) \X (1..Len(ns)) : p[1] < p[2]}

Disjoint(a, b) ==
    \/ Right(a) < Left(b)
    \/ Right(b) < Left(a)
    \/ Bottom(a) < Top(b)
    \/ Bottom(b) < Top(a)

\* C1: in the final layout no two distinct nodes have overlapping boxes:
\* their x-extents or their y-extents are disjoint.
C1_NoOverlap ==
    \A i \in Started :
        HasLayout(i) =>
            \A p \in Pairs(nodes[i]) : Disjoint(nodes[i][p[1]], nodes[i][p[2]])

\* a final layout with two boxes in one column, children of a node that is
\* not the root
C1_Witness ==
    \E i \in Started :
        /\ HasLayout(i)
        /\ \E p \in Pairs(nodes[i]) :
              /\ nodes[i][p[1]].x = nodes[i][p[2]].x
              /\ nodes[i][p[1]].depth = 2
              /\ nodes[i][p[2]].depth = 2

LeftEdges(ns) == [k \in 1..Len(ns) |-> Left(ns[k])]
RightEdges(ns) == [k \in 1..Len(ns) |-> Right(ns[k])]
TopEdges(ns) == [k \in 1..Len(ns) |-> Top(ns[k])]
BottomEdges(ns) == [k \in 1..Len(ns) |-> Bottom(ns[k])]

\* C2: after _normalize_bounds the least left edge and the least top edge
\* over all nodes both equal MARGIN, a single-node tree included.
C2_MarginOrigin ==
    \A i \in Started :
        HasLayout(i) =>
            /\ MinSeq(LeftEdges(nodes[i])) = MARGIN * UNIT
            /\ MinSeq(TopEdges(nodes[i])) = MARGIN * UNIT

\* a normalised layout with nodes on both sides of the root, which the
\* normaliser had to move right and down
C2_Witness ==
    \E i \in Started :
        /\ pc[i] = "normalized"
        /\ \E a, b \in 1..Len(nodes[i]) :
              /\ nodes[i][a].x < nodes[i][1].x
              /\ nodes[i][b].x > nodes[i][1].x
        /\ nodes[i][1].x > rtree[i][1].x
        /\ nodes[i][1].y > rtree[i][1].y

\* C3: the canvas is the greatest right edge and the greatest bottom edge
\* plus one MARGIN, so every box lies inside the canvas less its margins.
C3_CanvasFits ==
    \A i \in Started :
        HasLayout(i) =>
            /\ canvas[i].width = MaxSeq(RightEdges(nodes[i])) + MARGIN * UNIT
            /\ canvas[i].height = MaxSeq(BottomEdges(nodes[i])) + MARGIN * UNIT
            /\ \A k \in 1..Len(nodes[i]) :
                  /\ MARGIN * UNIT <= Left(nodes[i][k])
                  /\ Right(nodes[i][k]) <= canvas[i].width - MARGIN * UNIT
                  /\ MARGIN * UNIT <= Top(nodes[i][k])
                  /\ Bottom(nodes[i][k]) <= canvas[i].height - MARGIN * UNIT

\* a normalised layout whose right-most and lowest box is not the root's
C3_Witness ==
    \E i \in Started :
        /\ pc[i] = "normalized"
        /\ Len(nodes[i]) >= 3
        /\ Right(nodes[i][1]) < canvas[i].width - MARGIN * UNIT
        /\ Bottom(nodes[i][1]) < canvas[i].height - MARGIN * UNIT

\* C4: the identifiers of the node list are pairwise distinct, and each
\* component of each edge is the identifier of exactly one node.
C4_IdsAndEdges ==
    \A i \in Started :
        pc[i] \in {"collected", "normalized", "done"} =>
            /\ \A p \in Pairs(nodes[i]) :
                  nodes[i][p[1]].node_id # nodes[i][p[2]].node_id
            /\ \A e \in 1..Len(edges[i]) : \A c \in 1..2 :
                  Cardinality({k \in 1..Len(nodes[i]) :
                                  nodes[i][k].node_id = edges[i][e][c]}) = 1

\* a flattened tree with branching and nesting
C4_Witness ==
    \E i \in Started :
        /\ pc[i] = "collected"
        /\ Len(nodes[i]) >= 4
        /\ Len(edges[i]) = Len(nodes[i]) - 1
        /\ \E k \in 1..Len(nodes[i]) : nodes[i][k].depth = 2

NoBulletLine(lines) == \A k \in 1..Len(lines) : ~BulletMatch(lines[k])

\* C5: a markdown without a bullet line parses to None, the entry point then
\* returns None as its normal result, and an entry point returns None
\* exactly when the parser did.
C5_NoStructure ==
    \A i \in Started :
        /\ (pc[i] # "start" /\ NoBulletLine(markdown[i])) =>
              /\ parsed[i] = NoStructure
              /\ pc[i] = "done"
              /\ result[i] = None
        /\ pc[i] = "done" => (result[i] = None <=> parsed[i] = NoStructure)
        /\ (pc[i] # "start" /\ parsed[i] = NoStructure) => pc[i] = "done"

\* an entry point returned None for a text of headings and paragraphs
C5_Witness ==
    \E i \in Started :
        /\ pc[i] = "done"
        /\ result[i] = None
        /\ Len(markdown[i]) >= 2
        /\ NoBulletLine(markdown[i])
        /\ \E k \in 1..Len(markdown[i]) : HeadingMatch(markdown[i][k])

\* the bullets of invocation i's markdown, with their normalised depths
BulletsOf(i) ==
    LET bullets == ScanBullets(markdown[i])
    IN  IF bullets = <<>> THEN <<>> ELSE Normalized(bullets)

\* the bullet the outline makes the parent of bullet m: the nearest earlier
\* bullet that is strictly less deep; 0 when there is none
ParentOf(bs, m) == LastIn(1, m - 1, LAMBDA j : bs[j].depth < bs[m].depth)

\* the heap nodes of the bullets whose parent is bullet k, in document order
NodesUnder(bs, k) ==
    LET ms == SelectSeq([m \in 1..Len(bs) |-> m], LAMBDA m : ParentOf(bs, m) = k)
    IN  [j \in 1..Len(ms) |-> ms[j] + 1]

\* C6: with exactly one top-level bullet the parser has returned that bullet's
\* own node as the root, titled with the bullet's cleaned text and holding
\* its nested bullets in document order; no node is synthesized, with or
\* without a heading.
C6_SingleTopLevel ==
    \A i \in Started :
        LET bs == BulletsOf(i)
        IN  (pc[i] = "parsed" /\ Len(NodesUnder(bs, 0)) = 1) =>
                /\ parsed[i].root = 2
                /\ Len(parsed[i].heap) = Len(bs) + 1
                /\ parsed[i].heap[2].title = bs[1].text
                /\ parsed[i].heap[2].children = NodesUnder(bs, 1)

\* a parsed outline with a heading and one top-level bullet that has nested
\* bullets
C6_Witness ==
    \E i \in Started :
        LET bs == BulletsOf(i)
        IN  /\ pc[i] = "parsed"
            /\ Len(NodesUnder(bs, 0)) = 1
            /\ Len(NodesUnder(bs, 1)) >= 2
            /\ Truthy(ScanHeading(markdown[i], <<>>))

HeadingWithText(line) == HeadingMatch(line) /\ CleanText(HeadingText(line)) # <<>>

\* the title of a synthesized root: the first heading whose cleaned text is
\* not empty, else the fallback
FirstTitledHeading(lines) ==
    LET k == FirstIn(1, Len(lines), LAMBDA j : HeadingWithText(lines[j]))
    IN  IF k = 0 THEN FallbackTitle ELSE CleanText(HeadingText(lines[k]))

\* the title the first heading line gives, else the fallback
FirstHeading(lines) ==
    LET k == FirstIn(1, Len(lines), LAMBDA j : HeadingMatch(lines[j]))
    IN  IF k = 0 THEN FallbackTitle ELSE CleanText(HeadingText(lines[k]))

SynthesizedRoot(i, bs) ==
    /\ parsed[i].root = Len(bs) + 2
    /\ Len(parsed[i].heap) = Len(bs) + 2
    /\ parsed[i].heap[parsed[i].root].children = NodesUnder(bs, 0)

\* C7 (as amended): with two or more top-level bullets the parser returns a
\* synthesized root whose children are the top-level bullets in document
\* order and whose title is the first heading whose cleaned text is not
\* empty, or "Mind Map" when the input has no such heading.
C7_SynthesizedRoot ==
    \A i \in Started :
        LET bs == BulletsOf(i)
        IN  (pc[i] = "parsed" /\ Len(NodesUnder(bs, 0)) >= 2) =>
                /\ SynthesizedRoot(i, bs)
                /\ parsed[i].heap[parsed[i].root].title = FirstTitledHeading(markdown[i])

\* C7 (as claimed): the title is that of the first heading found in the
\* input, or "Mind Map" when the input has no heading.
C7_Original ==
    \A i \in Started :
        LET bs == BulletsOf(i)
        IN  (pc[i] = "parsed" /\ Len(NodesUnder(bs, 0)) >= 2) =>
                /\ SynthesizedRoot(i, bs)
                /\ parsed[i].heap[parsed[i].root].title = FirstHeading(markdown[i])

\* a synthesized root titled by a heading that follows a heading without text
C7_Witness ==
    \E i \in Started :
        /\ pc[i] = "parsed"
        /\ Len(NodesUnder(BulletsOf(i), 0)) >= 2
        /\ FirstHeading(markdown[i]) = <<>>
        /\ parsed[i].heap[parsed[i].root].title = <<"T">>

\* C8: two runs of the pipeline on the same markdown yield the same node
\* identifiers in the same order, the same edges, positions and canvas.
C8_Deterministic ==
    \A i, j \in Started :
        (HasLayout(i) /\ HasLayout(j) /\ markdown[i] = markdown[j]) =>
            /\ nodes[i] = nodes[j]
            /\ edges[i] = edges[j]
            /\ canvas[i] = canvas[j]

\* both invocations finished on the same outline of several nodes
C8_Witness ==
    /\ pc[1] = "done"
    /\ pc[2] = "done"
    /\ markdown[1] = markdown[2]
    /\ Len(nodes[1]) >= 3
    /\ Len(nodes[2]) >= 3

\* the layout of a markdown by a run on its own, its counter starting at 0
SoloLayout(lines) ==
    LET tree == ParseMindMapMarkdown(lines)
        heap == PlaceTree(Visit(tree.heap, tree.root, 0,
                                [heap |-> <<>>, counter |-> 0]).heap)
        flat == CollectNodes(heap)
        norm == NormalizeBounds(flat.nodes)
    IN  [nodes |-> norm.nodes, edges |-> flat.edges,
         canvas |-> [width |-> norm.width, height |-> norm.height]]

\* what invocation i owns
Own(i) ==
    <<markdown[i], parsed[i], rtree[i], nodes[i], edges[i], canvas[i], result[i],
      served[i]>>

\* C9: interleaved in any order, each of two invocations produces the
\* identifiers and positions of a run on its own, its counter starting at
\* 0, and a step of one invocation leaves what the other owns as it was.
C9_Independent ==
    /\ [](\A i \in Started :
             HasLayout(i) =>
                 /\ nodes[i] = SoloLayout(markdown[i]).nodes
                 /\ edges[i] = SoloLayout(markdown[i]).edges
                 /\ canvas[i] = SoloLayout(markdown[i]).canvas
                 /\ nodes[i][1].node_id = 0)
    /\ [][\A i \in Inv : pc'[i] = pc[i] => Own(i)' = Own(i)]_vars

\* one invocation holds its final layout while the other, on another
\* outline, is between decoration and flattening
C9_Witness ==
    \E i, j \in Started :
        /\ HasLayout(i)
        /\ Len(nodes[i]) >= 3
        /\ pc[j] \in {"decorated", "placed"}
        /\ Len(rtree[j]) >= 3
        /\ markdown[i] # markdown[j]

\* C10: a drawing asked for with a positive max_width below the natural
\* width has the natural width and height times one common factor, is no
\* wider than max_width and, when max_height is given, no higher than it,
\* and the factor is the largest one not above 1 that fits the bounds.
C10_ScaleDown ==
    \A i \in Started :
        (/\ pc[i] = "done"
         /\ result[i].kind = "drawing"
         /\ result[i].max_width > 0
         /\ RatLess(Rat(result[i].max_width, 1), Px(canvas[i].width))) =>
            LET factor == RatDiv(result[i].width, Px(canvas[i].width))
                max_w == Rat(result[i].max_width, 1)
                max_h == Rat(result[i].max_height, 1)
            IN  /\ result[i].height = RatMul(Px(canvas[i].height), factor)
                /\ result[i].transform = <<factor, factor>>
                /\ RatLess(factor, One)
                /\ RatLeq(result[i].width, max_w)
                /\ result[i].max_height > 0 => RatLeq(result[i].height, max_h)
                /\ \/ result[i].width = max_w
                   \/ result[i].max_height > 0 /\ result[i].height = max_h

\* a drawing scaled down to max_width, with a max_height that is given and
\* does not bind
C10_Witness ==
    \E i \in Started :
        /\ pc[i] = "done"
        /\ result[i].kind = "drawing"
        /\ result[i].max_width > 0
        /\ result[i].max_height > 0
        /\ result[i].width = Rat(result[i].max_width, 1)
        /\ RatLess(result[i].height, Rat(result[i].max_height, 1))
        /\ RatLess(result[i].width, Px(canvas[i].width))

\* a bound that does not ask for less than the natural size: absent, or at
\* least the canvas on its axis
Roomy(bound, natural) == bound = 0 \/ RatLeq(Px(natural), Rat(bound, 1))

\* C11: a drawing asked for without bounds, or with bounds that are all at
\* least the natural size on their axis, has the canvas width and height of
\* the layout and carries no scale transform.
C11_NeverUpscales ==
    \A i \in Started :
        (/\ pc[i] = "done"
         /\ result[i].kind = "drawing"
         /\ Roomy(result[i].max_width, canvas[i].width)
         /\ Roomy(result[i].max_height, canvas[i].height)) =>
            /\ result[i].width = Px(canvas[i].width)
            /\ result[i].height = Px(canvas[i].height)
            /\ result[i].transform = <<>>

\* a drawing with both bounds given, one above the natural size and one
\* equal to it
C11_Witness ==
    \E i \in Started :
        /\ pc[i] = "done"
        /\ result[i].kind = "drawing"
        /\ result[i].max_width > 0
        /\ result[i].max_height > 0
        /\ RatLess(Px(canvas[i].width), Rat(result[i].max_width, 1))
        /\ Px(canvas[i].height) = Rat(result[i].max_height, 1)
        /\ result[i].transform = <<>>

\* C12: for mind-map notes render_document_pdf puts the story derived from
\* the markdown, one flowable a line, below the title when the drawing is
\* None, and the drawing without that story when it is not; and the response
\* of the notes API carries the notes as content_markdown whatever
\* mind_map_svg is, which is None when no structure was found.
C12_PlainFallback ==
    \A i \in Started :
        pc[i] = "served" =>
            /\ (served[i].kind = "pdf" /\ served[i].note_style = "mind_map") =>
                  IF result[i] = None
                  THEN /\ served[i].body = MarkdownToStory(markdown[i])
                       /\ Len(served[i].body) = Len(markdown[i])
                       /\ \A k \in 1..Len(served[i].body) :
                             served[i].body[k].kind \in {"paragraph", "spacer"}
                  ELSE /\ served[i].body = <<result[i], Spacer(12)>>
                       /\ result[i].kind = "drawing"
            /\ served[i].kind = "notes_response" =>
                  /\ served[i].content_markdown = markdown[i]
                  /\ served[i].note_style = "mind_map" =>
                        /\ served[i].mind_map_svg = result[i]
                        /\ served[i].mind_map_svg = None <=> parsed[i] = NoStructure
                  /\ served[i].note_style # "mind_map" => served[i].mind_map_svg = None

\* a PDF of mind-map notes without a bullet, which holds a heading and a
\* paragraph instead of a drawing
C12_Witness ==
    \E i \in Started :
        /\ pc[i] = "served"
        /\ served[i].kind = "pdf"
        /\ served[i].note_style = "mind_map"
        /\ result[i] = None
        /\ \E k \in 1..Len(served[i].body) : served[i].body[k].style = "h1"
        /\ \E k \in 1..Len(served[i].body) : served[i].body[k].style = "body"

\* the first lines of a title cut every width characters
FixedChunks(title, width) ==
    LET count == Min2(MAX_LINES, (Len(title) + width - 1) \div width)
    IN  [j \in 1..count |->
            SubSeq(title, (j - 1) * width + 1, Min2(j * width, Len(title)))]

\* C13: every decorated node at depth d has between 1 and 6 display lines,
\* none longer than max(14, 24 - d) characters; a title without a space that
\* is longer than that is cut into consecutive chunks of that many
\* characters.
C13_WrappedLines ==
    \A i \in Started : \A k \in 1..Len(rtree[i]) :
        LET n == rtree[i][k]
            limit == Max2(WRAP_FLOOR, WRAP_BASE - n.depth)
        IN  /\ Len(n.lines) \in 1..MAX_LINES
            /\ \A j \in 1..Len(n.lines) : Len(n.lines[j]) <= limit
            /\ (~Has(n.title, " ") /\ Len(n.title) > limit) =>
                  n.lines = FixedChunks(n.title, limit)

\* a node at the least wrap width whose unbroken title makes more chunks than
\* the cap, or a node whose title of words makes more lines than the cap
C13_Witness ==
    \E i \in Started : \E k \in 1..Len(rtree[i]) :
        LET n == rtree[i][k]
        IN  /\ n.depth = MaxDepth
            /\ Len(n.lines) = MAX_LINES
            /\ \/ /\ ~Has(n.title, " ")
                  /\ Len(n.title) > MAX_LINES * WRAP_FLOOR
                  /\ \A j \in 1..MAX_LINES : Len(n.lines[j]) = WRAP_FLOOR
               \/ /\ Has(n.title, " ")
                  /\ Len(Split(n.title)) > MAX_LINES

\* the depth of bullet k of the scanned bullets raw: its indentation less
\* the least one, divided by 2 and rounded down
DepthOf(raw, k) ==
    (raw[k].indent - MinSeq([j \in 1..Len(raw) |-> raw[j].indent])) \div INDENT_UNIT

\* the nearest bullet before m that is strictly less deep; 0 for none
NearestShallower(raw, m) ==
    LastIn(1, m - 1, LAMBDA j : DepthOf(raw, j) < DepthOf(raw, m))

\* C14: in the parsed tree each bullet's node hangs under the node of the
\* nearest preceding bullet of strictly smaller normalized depth, or under
\* the pseudo-root when there is none, and the children of every node are in
\* document order; the normalized depth is the indentation less the least
\* indentation, integer-divided by 2.
C14_NearestShallowerParent ==
    \A i \in Started :
        pc[i] = "parsed" =>
            LET raw == ScanBullets(markdown[i])
                heap == parsed[i].heap
            IN  /\ \A m \in 1..Len(raw) : heap[m + 1].title = raw[m].text
                /\ \A p \in 0..Len(raw) :
                      /\ \A c \in 1..Len(heap[p + 1].children) :
                            /\ heap[p + 1].children[c] > p + 1
                            /\ NearestShallower(raw, heap[p + 1].children[c] - 1) = p
                            /\ c > 1 => heap[p + 1].children[c - 1]
                                            < heap[p + 1].children[c]
                      /\ Len(heap[p + 1].children)
                            = Cardinality({m \in 1..Len(raw) : NearestShallower(raw, m) = p})

\* a parsed outline whose least indentation is odd, in which a bullet one
\* column further in is a sibling of the first and a later one is its child
C14_Witness ==
    \E i \in Started :
        LET raw == ScanBullets(markdown[i])
        IN  /\ pc[i] = "parsed"
            /\ Len(raw) = 4
            /\ MinSeq([j \in 1..Len(raw) |-> raw[j].indent]) = 1
            /\ raw[2].indent = 2
            /\ NearestShallower(raw, 2) = 0
            /\ NearestShallower(raw, 3) = 2
            /\ NearestShallower(raw, 4) = 0

\* the number of nodes of the tree under node n of a heap, n included
RECURSIVE TreeSize(_, _)
TreeSize(heap, n) ==
    1 + SumSeq([c \in 1..Len(heap[n].children) |-> TreeSize(heap, heap[n].children[c])])

\* the nodes of a parsed tree that stand for bullets: all but a synthesized
\* root, which is the root that took over the pseudo-root's children
BulletNodes(tree) ==
    TreeSize(tree.heap, tree.root)
    - (IF tree.heap[tree.root].children = tree.heap[1].children THEN 1 ELSE 0)

Recognized(lines) == {k \in 1..Len(lines) : BulletMatch(lines[k])}

WithText(lines) ==
    {k \in Recognized(lines) : CleanText(BulletText(lines[k])) # <<>>}

\* C15 (as amended): every recognized bullet line whose cleaned text is not
\* empty becomes a node of the parsed tree and no other line does, so the
\* result is the no-structure value exactly when no such line exists.
C15_BulletsWithText ==
    \A i \in Started :
        pc[i] # "start" =>
            IF WithText(markdown[i]) = {}
            THEN parsed[i] = NoStructure
            ELSE /\ parsed[i] # NoStructure
                 /\ BulletNodes(parsed[i]) = Cardinality(WithText(markdown[i]))

\* C15 (as claimed): the number of non-synthetic nodes equals the number of
\* recognized bullet lines, and an input with a recognized bullet line never
\* yields the no-structure value.
C15_Original ==
    \A i \in Started :
        pc[i] # "start" =>
            IF Recognized(markdown[i]) = {}
            THEN parsed[i] = NoStructure
            ELSE /\ parsed[i] # NoStructure
                 /\ BulletNodes(parsed[i]) = Cardinality(Recognized(markdown[i]))

\* a parsed outline of three nodes from four recognized bullet lines
C15_Witness ==
    \E i \in Started :
        /\ pc[i] = "parsed"
        /\ Cardinality(Recognized(markdown[i])) = 4
        /\ Cardinality(WithText(markdown[i])) = 3
        /\ BulletNodes(parsed[i]) = 3

\* the nodes of the tree under node n of a render heap, n included
RECURSIVE Subtree(_, _)
Subtree(heap, n) ==
    {n} \cup UNION {Subtree(heap, heap[n].children[c]) : c \in 1..Len(heap[n].children)}

\* the vertical extent that the boxes of node n and its descendants cover
SubtreeExtent(heap, n) ==
    LET under == Subtree(heap, n)
        lowest == CHOOSE m \in under : \A o \in under : Bottom(heap[m]) >= Bottom(heap[o])
        highest == CHOOSE m \in under : \A o \in under : Top(heap[m]) <= Top(heap[o])
    IN  Bottom(heap[lowest]) - Top(heap[highest])

Placed == {"placed", "collected", "normalized", "done"}

\* C16: for every node placed on a side, the vertical extent covered by its
\* own box and the boxes of all its descendants is no larger than its
\* subtree height.
C16_SubtreeFitsBand ==
    \A i \in Started :
        pc[i] \in Placed =>
            \A n \in 2..Len(rtree[i]) :
                SubtreeExtent(rtree[i], n) <= SubtreeHeight(rtree[i], n)

\* the reference heights of a decorated tree, filled in from the last node of
\* the heap to the first: every child comes after its parent, so a node's
\* children are in the table when the node is reached
RECURSIVE HeightTable(_, _, _)
HeightTable(heap, n, table) ==
    IF n = 0 THEN table
    ELSE LET kids == heap[n].children
             stacked == SumSeq([k \in 1..Len(kids) |-> table[kids[k]]])
                        + V_GAP * UNIT * (Len(kids) - 1)
             value == IF kids = <<>> THEN heap[n].height
                      ELSE Max2(heap[n].height, stacked)
         IN  HeightTable(heap, n - 1, [table EXCEPT ![n] = value])

ReferenceHeights(heap) == HeightTable(heap, Len(heap), [n \in 1..Len(heap) |-> 0])

Decorated == {"decorated"} \cup Placed

\* C17: for every node of every decorated tree, _subtree_height equals the
\* reference value: the box height for a leaf, and for a node with children
\* the larger of its box height and the sum of the children's values plus
\* V_GAP for each gap between two children.
C17_SubtreeHeightReference ==
    \A i \in Started :
        pc[i] \in Decorated =>
            LET reference == ReferenceHeights(rtree[i])
            IN  \A n \in 1..Len(rtree[i]) :
                    SubtreeHeight(rtree[i], n) = reference[n]

\* a decorated tree with a node whose own box is taller than its children's
\* stack and a node whose stack of two or more children is taller than its box
C17_Witness ==
    /\ pc[1] = "decorated"
    /\ LET heap == rtree[1]
           reference == ReferenceHeights(heap)
       IN  /\ \E n \in 1..Len(heap) :
                  /\ heap[n].children # <<>>
                  /\ heap[n].height = reference[n]
                  /\ \E c \in 1..Len(heap[n].children) :
                         heap[heap[n].children[c]].height < heap[n].height
           /\ \E m \in 1..Len(heap) :
                  /\ Len(heap[m].children) >= 2
                  /\ heap[m].height < reference[m]
                  /\ SubtreeHeight(heap, m) = reference[m]

Sides == {"left", "right"}

\* the children that a side assignment gives to one side, in document order
GroupOf(children, side_of, side) ==
    LET at == {k \in 1..Len(children) : side_of[k] = side}
    IN  [r \in 1..Cardinality(at) |->
            children[CHOOSE k \in at : Cardinality({j \in at : j <= k}) = r]]

\* the subtree height a side has accumulated before child k is processed
HeightBefore(heap, children, side_of, side, k) ==
    SumSeq([j \in 1..(k - 1) |->
               IF side_of[j] = side THEN SubtreeHeight(heap, children[j]) ELSE 0])

\* the running-total rule: a child goes to the side whose accumulated height
\* is smaller when it is processed, and to the left on a tie
FollowsGreedyRule(heap, children, side_of) ==
    \A k \in 1..Len(children) :
        side_of[k] = IF HeightBefore(heap, children, side_of, "left", k)
                         <= HeightBefore(heap, children, side_of, "right", k)
                     THEN "left" ELSE "right"

GreedyGroups(heap, children) ==
    LET side_of == CHOOSE f \in [1..Len(children) -> Sides] :
                       FollowsGreedyRule(heap, children, f)
    IN  [left |-> GroupOf(children, side_of, "left"),
         right |-> GroupOf(children, side_of, "right")]

\* C18 as stated: for every list of top-level children, the groups returned
\* by _split_top_level_children are those of the greedy running-total rule
\* (the side with the smaller accumulated subtree height, the left on a tie).
C18_Original ==
    \A i \in Started :
        pc[i] \in Decorated /\ rtree[i] # <<>> /\ rtree[i][1].children # <<>> =>
            SplitTopLevelChildren(rtree[i], rtree[i][1].children)
                = GreedyGroups(rtree[i], rtree[i][1].children)

\* C18, amended: for every list of two or more top-level children the groups
\* returned by _split_top_level_children are those of the greedy
\* running-total rule; a single top-level child is returned alone in the
\* right group, the left group being empty.
C18_GreedyGroupsOfSeveral ==
    \A i \in Started :
        pc[i] \in Decorated /\ rtree[i] # <<>> /\ rtree[i][1].children # <<>> =>
            LET children == rtree[i][1].children
                returned == SplitTopLevelChildren(rtree[i], children)
            IN  IF Len(children) >= 2
                THEN returned = GreedyGroups(rtree[i], children)
                ELSE returned = [left |-> <<>>, right |-> children]

\* three or more top-level children, one of them processed on a tie of two
\* non-zero totals and one processed while the left total was the larger
C18_Witness ==
    /\ pc[1] = "decorated"
    /\ LET heap == rtree[1]
           children == heap[1].children
           side_of == [k \in 1..Len(children) |->
                          IF \E c \in 1..Len(SplitTopLevelChildren(heap, children).left) :
                                 SplitTopLevelChildren(heap, children).left[c] = children[k]
                          THEN "left" ELSE "right"]
       IN  /\ Len(children) >= 3
           /\ \E k \in 2..Len(children) :
                  /\ HeightBefore(heap, children, side_of, "left", k) > 0
                  /\ HeightBefore(heap, children, side_of, "left", k)
                         = HeightBefore(heap, children, side_of, "right", k)
                  /\ side_of[k] = "left"
           /\ \E k \in 2..Len(children) :
                  /\ HeightBefore(heap, children, side_of, "left", k)
                         > HeightBefore(heap, children, side_of, "right", k)
                  /\ side_of[k] = "right"

\* the number of places a child takes in a group
Places(group, child) == Cardinality({c \in 1..Len(group) : group[c] = child})

\* the members of a group are children, in the order the children have
KeepsOrder(group, children) ==
    /\ \A c \in 1..Len(group) : \E k \in 1..Len(children) : children[k] = group[c]
    /\ \A a, b \in 1..Len(group) :
           a < b => \E k, l \in 1..Len(children) :
                       k < l /\ children[k] = group[a] /\ children[l] = group[b]

\* C19: when the root has two or more children, the left and the right group
\* returned by _split_top_level_children are both non-empty; for any number
\* of children every child is in exactly one of the two groups, and each
\* group keeps the document order.
C19_SplitPartitions ==
    \A i \in Started :
        pc[i] \in Decorated /\ rtree[i] # <<>> =>
            LET children == rtree[i][1].children
                returned == SplitTopLevelChildren(rtree[i], children)
            IN  /\ Len(children) >= 2 =>
                       returned.left # <<>> /\ returned.right # <<>>
                /\ \A k \in 1..Len(children) :
                       Places(returned.left, children[k])
                           + Places(returned.right, children[k]) = 1
                /\ KeepsOrder(returned.left, children)
                /\ KeepsOrder(returned.right, children)

\* a root with four children, two of them in each group
C19_Witness ==
    /\ pc[1] = "decorated"
    /\ LET children == rtree[1][1].children
           returned == SplitTopLevelChildren(rtree[1], children)
       IN  /\ Len(children) = 4
           /\ Len(returned.left) = 2
           /\ Len(returned.right) = 2

\* the node of the final layout that came from node n of the decorated tree
FinalNode(i, n) ==
    nodes[i][CHOOSE k \in 1..Len(nodes[i]) : nodes[i][k].node_id = rtree[i][n].node_id]

\* the nodes under the top-level children of a group, those children included
SideNodes(heap, group) == UNION {Subtree(heap, group[c]) : c \in 1..Len(group)}

\* every node under a group lies side * depth * H_STEP from the root
ColumnsOf(i, group, side) ==
    \A n \in SideNodes(rtree[i], group) :
        FinalNode(i, n).x - FinalNode(i, 1).x
            = side * FinalNode(i, n).depth * H_STEP * UNIT

\* C20: in the final layout every non-root node has
\* x - root.x = side * depth * H_STEP, side being -1 for the nodes under the
\* left group of top-level children and +1 for those under the right group;
\* so nodes of one depth on one side share their x, and the root's x lies
\* strictly between the x of every left-side and of every right-side node.
C20_Columns ==
    \A i \in Started :
        HasLayout(i) =>
            LET heap == rtree[i]
                sides == SplitTopLevelChildren(heap, heap[1].children)
                lefts == SideNodes(heap, sides.left)
                rights == SideNodes(heap, sides.right)
            IN  /\ lefts \cup rights = 2..Len(heap)
                /\ ColumnsOf(i, sides.left, -1)
                /\ ColumnsOf(i, sides.right, 1)
                /\ \A m, n \in lefts :
                       heap[m].depth = heap[n].depth => FinalNode(i, m).x = FinalNode(i, n).x
                /\ \A m, n \in rights :
                       heap[m].depth = heap[n].depth => FinalNode(i, m).x = FinalNode(i, n).x
                /\ \A n \in lefts : FinalNode(i, n).x < FinalNode(i, 1).x
                /\ \A n \in rights : FinalNode(i, 1).x < FinalNode(i, n).x

\* a final layout with a node two levels below the root on either side
C20_Witness ==
    /\ HasLayout(1)
    /\ LET heap == rtree[1]
           sides == SplitTopLevelChildren(heap, heap[1].children)
       IN  /\ \E n \in SideNodes(heap, sides.left) :
                  /\ heap[n].depth = 2
                  /\ FinalNode(1, n).x = FinalNode(1, 1).x - 2 * H_STEP * UNIT
           /\ \E n \in SideNodes(heap, sides.right) :
                  /\ heap[n].depth = 2
                  /\ FinalNode(1, n).x = FinalNode(1, 1).x + 2 * H_STEP * UNIT


\* the nodes other than the root that have children
InnerNodes(heap) == {n \in 2..Len(heap) : heap[n].children # <<>>}

\* C21: every non-root node with children has, as its y, the arithmetic mean
\* of the y of its direct children, in the placed tree (before normalization)
\* and in the final node list (after it).
C21_MeanOfChildren ==
    \A i \in Started :
        /\ pc[i] \in Placed =>
              \A n \in InnerNodes(rtree[i]) :
                  LET kids == rtree[i][n].children
                  IN  Len(kids) * rtree[i][n].y
                          = SumSeq([k \in 1..Len(kids) |-> rtree[i][kids[k]].y])
        /\ HasLayout(i) =>
              \A n \in InnerNodes(rtree[i]) :
                  LET kids == rtree[i][n].children
                  IN  Len(kids) * FinalNode(i, n).y
                          = SumSeq([k \in 1..Len(kids) |-> FinalNode(i, kids[k]).y])

\* a final layout with a non-root node whose two or more children have a mean
\* y that is not the middle of the span of their boxes
C21_Witness ==
    /\ HasLayout(1)
    /\ \E n \in InnerNodes(rtree[1]) :
          LET kids == rtree[1][n].children
              first == FinalNode(1, kids[1])
              last == FinalNode(1, kids[Len(kids)])
          IN  /\ Len(kids) >= 2
              /\ Len(kids) * FinalNode(1, n).y
                     = SumSeq([k \in 1..Len(kids) |-> FinalNode(1, kids[k]).y])
              /\ 2 * FinalNode(1, n).y # Top(first) + Bottom(last)


\* the nodes of a tree in pre-order: a node, then the pre-order of each of its
\* children's subtrees in turn
RECURSIVE Preorder(_, _)
Preorder(heap, n) ==
    <<n>> \o Concat([c \in 1..Len(heap[n].children) |-> Preorder(heap, heap[n].children[c])])

\* the parent of a node other than the root
TreeParent(heap, n) == CHOOSE p \in 1..Len(heap) : \E c \in 1..Len(heap[p].children) : heap[p].children[c] = n

Collected == {"collected", "normalized", "done"}

\* C22: the node list is the pre-order traversal of the tree, the root first;
\* the node at list position k, counted from 0, has identifier k; the edge list
\* has one edge per non-root node, in the order of the nodes themselves, each
\* (parent id, child id) with parent id < child id.
C22_PreorderLists ==
    \A i \in Started :
        pc[i] \in Collected /\ rtree[i] # <<>> =>
            LET heap == rtree[i]
                order == Preorder(heap, 1)
            IN  /\ Len(nodes[i]) = Len(order)
                /\ \A k \in 1..Len(order) :
                       /\ nodes[i][k].title = heap[order[k]].title
                       /\ nodes[i][k].depth = heap[order[k]].depth
                       /\ nodes[i][k].node_id = heap[order[k]].node_id
                       /\ nodes[i][k].node_id = k - 1
                /\ Len(edges[i]) = Len(order) - 1
                /\ \A k \in 1..Len(edges[i]) :
                       /\ edges[i][k][2] = heap[order[k + 1]].node_id
                       /\ edges[i][k][1] = heap[TreeParent(heap, order[k + 1])].node_id
                       /\ edges[i][k][1] < edges[i][k][2]

\* a node list in which a node two levels down is followed by one a level up,
\* and an edge list whose last edge starts at the root
C22_Witness ==
    /\ pc[1] \in Collected
    /\ Len(nodes[1]) >= 4
    /\ \E k \in 1..(Len(nodes[1]) - 1) :
          nodes[1][k].depth = 2 /\ nodes[1][k + 1].depth = 1
    /\ edges[1][Len(edges[1])] = <<0, Len(nodes[1]) - 1>>


\* what decoration fixes of a node: everything but its position
Fixed(n) ==
    [node_id |-> n.node_id, title |-> n.title, depth |-> n.depth, lines |-> n.lines,
     width |-> n.width, height |-> n.height]

\* C23: after layout and after normalization every node has the width,
\* height, identifier, depth, title and wrapped lines that decoration gave it,
\* and normalization moves every node by the same (shift_x, shift_y): the
\* offset between any two nodes is what it was in the placed tree.
C23_OnlyPositionsChange ==
    \A i \in Started :
        pc[i] \in Placed /\ rtree[i] # <<>> =>
            LET decorated == DecorateTree(parsed[i])
            IN  /\ Len(rtree[i]) = Len(decorated)
                /\ \A n \in 1..Len(decorated) :
                       /\ Fixed(rtree[i][n]) = Fixed(decorated[n])
                       /\ rtree[i][n].children = decorated[n].children
                /\ HasLayout(i) =>
                       /\ Len(nodes[i]) = Len(decorated)
                       /\ \A n \in 1..Len(decorated) :
                              /\ Fixed(FinalNode(i, n)) = Fixed(decorated[n])
                              /\ FinalNode(i, n).x - FinalNode(i, 1).x
                                     = rtree[i][n].x - rtree[i][1].x
                              /\ FinalNode(i, n).y - FinalNode(i, 1).y
                                     = rtree[i][n].y - rtree[i][1].y

\* a final layout of three or more nodes, one of them with a wrapped title,
\* that normalization has moved along both axes
C23_Witness ==
    /\ HasLayout(1)
    /\ Len(nodes[1]) >= 3
    /\ \E n \in 1..Len(rtree[1]) : Len(FinalNode(1, n).lines) >= 2
    /\ FinalNode(1, 1).x # rtree[1][1].x
    /\ FinalNode(1, 1).y # rtree[1][1].y
    /\ \E n \in 2..Len(rtree[1]) : rtree[1][n].y # 0


\* C24: the view box of the vector-graphic document, which starts at (0, 0),
\* has the width and the height of the normalized canvas, for every layout.
C24_ViewBoxIsCanvas ==
    \A i \in Started :
        pc[i] = "done" /\ result[i].kind = "svg" =>
            /\ result[i].view_width * UNIT = canvas[i].width
            /\ result[i].view_height * UNIT = canvas[i].height


\* the y at which the vector graphic puts line j of a text element: the y of
\* the element and the dy of its tspans up to j
SvgLineY(text, j) == text.y + SumSeq([l \in 1..j |-> text.dys[l]])

\* the unscaled drawing of invocation i mirrors the vector graphic of the same
\* layout about the canvas height, its labels lowered by drop
Mirrors(i, drop) ==
    LET svg == SvgDocument(nodes[i], edges[i], canvas[i])
        drawing == result[i]
        H == canvas[i].height
    IN  /\ Len(drawing.lines) = Len(svg.lines)
        /\ \A k \in 1..Len(svg.lines) :
               drawing.lines[k] = [x1 |-> svg.lines[k].x1, y1 |-> H - svg.lines[k].y1,
                                   x2 |-> svg.lines[k].x2, y2 |-> H - svg.lines[k].y2]
        /\ Len(drawing.rects) = Len(svg.rects)
        /\ \A k \in 1..Len(svg.rects) :
               /\ drawing.rects[k].y = H - Bottom(nodes[i][k])
               /\ drawing.rects[k].y = H - (svg.rects[k].y + svg.rects[k].height)
               /\ drawing.rects[k].x = svg.rects[k].x
               /\ drawing.rects[k].width = svg.rects[k].width
               /\ drawing.rects[k].height = svg.rects[k].height
        /\ \A k \in 1..Len(svg.texts) :
               /\ Len(drawing.labels[k]) = Len(svg.texts[k].tspans)
               /\ \A j \in 1..Len(drawing.labels[k]) :
                      /\ drawing.labels[k][j].x = svg.texts[k].x
                      /\ drawing.labels[k][j].y = H - SvgLineY(svg.texts[k], j) - drop

UnscaledDrawing(i) ==
    pc[i] = "done" /\ result[i].kind = "drawing" /\ result[i].transform = <<>>

\* C25 as stated: in the unscaled drawing every edge runs from
\* (parent.x, H - parent.y) to (child.x, H - child.y), every box has its bottom
\* edge at H - (node.y + node.height / 2) with the x, width and height of the
\* vector-graphic box, and every text line is at H minus its vector-graphic y.
C25_Original == \A i \in Started : UnscaledDrawing(i) => Mirrors(i, 0)

\* C25, amended: the same, except that every text line is at H minus its
\* vector-graphic y minus 4.
C25_MirrorWithLabelDrop ==
    \A i \in Started : UnscaledDrawing(i) => Mirrors(i, LABEL_DROP * UNIT)

\* an unscaled drawing with an edge and a node of two or more lines
C25_Witness ==
    /\ UnscaledDrawing(1)
    /\ result[1].lines # <<>>
    /\ \E k \in 1..Len(result[1].labels) : Len(result[1].labels[k]) >= 2
    /\ Mirrors(1, LABEL_DROP * UNIT)


Reserved == {"&", "<", ">"}

\* the three entities, by the character each stands for
Entity(c) ==
    IF c = "&" THEN <<"&", "a", "m", "p", ";">>
    ELSE IF c = "<" THEN <<"&", "l", "t", ";">>
    ELSE <<"&", "g", "t", ";">>

\* entity e is written in s from position k on
WrittenAt(s, k, e) == k + Len(e) - 1 <= Len(s) /\ SubSeq(s, k, k + Len(e) - 1) = e

\* what a reader of the document takes the text s from position k on to be
RECURSIVE ReadFrom(_, _)
ReadFrom(s, k) ==
    IF k > Len(s) THEN <<>>
    ELSE IF \E c \in Reserved : WrittenAt(s, k, Entity(c))
    THEN LET c == CHOOSE c \in Reserved : WrittenAt(s, k, Entity(c))
         IN  <<c>> \o ReadFrom(s, k + Len(Entity(c)))
    ELSE <<s[k]>> \o ReadFrom(s, k + 1)

\* s is character data: no angle bracket, and no ampersand but the first
\* character of an entity
CharacterData(s) ==
    \A k \in 1..Len(s) :
        /\ s[k] \notin {"<", ">"}
        /\ s[k] = "&" => \E c \in Reserved : WrittenAt(s, k, Entity(c))

\* C26: in the vector-graphic output every embedded line is character data
\* that reads back as the node's wrapped line, its '&', '<' and '>' escaped;
\* so the document has one line element per edge and one rect and one text
\* element per node, with one tspan per wrapped line, whatever the titles hold.
C26_TextIsEscaped ==
    \A i \in Started :
        pc[i] = "done" /\ result[i].kind = "svg" =>
            /\ Len(result[i].lines) = Len(edges[i])
            /\ Len(result[i].rects) = Len(nodes[i])
            /\ Len(result[i].texts) = Len(nodes[i])
            /\ \A k \in 1..Len(nodes[i]) :
                   LET tspans == result[i].texts[k].tspans
                   IN  /\ Len(tspans) = Len(nodes[i][k].lines)
                       /\ \A j \in 1..Len(tspans) :
                              /\ CharacterData(tspans[j])
                              /\ ReadFrom(tspans[j], 1) = nodes[i][k].lines[j]

\* a vector graphic whose nodes hold an ampersand, a '<' and a '>' between them
C26_Witness ==
    /\ pc[1] = "done"
    /\ result[1].kind = "svg"
    /\ \A c \in Reserved :
          \E k \in 1..Len(nodes[1]) :
              /\ Has(nodes[1][k].lines[1], c)
              /\ \E p \in 1..Len(result[1].texts[k].tspans[1]) :
                     WrittenAt(result[1].texts[k].tspans[1], p, Entity(c))


\* the band allotted to a node, read off the placed tree: a leaf sits at the
\* centre of its band, and the bands of a node's children are stacked about
\* the centre of the node's own band
RECURSIVE BandCentre(_, _)
BandCentre(heap, n) ==
    LET kids == heap[n].children
        first == kids[1]
        last == kids[Len(kids)]
    IN  IF kids = <<>> THEN heap[n].y
        ELSE ((BandCentre(heap, first) - SubtreeHeight(heap, first) \div 2)
              + (BandCentre(heap, last) + SubtreeHeight(heap, last) \div 2)) \div 2

BandTop(heap, n) == BandCentre(heap, n) - SubtreeHeight(heap, n) \div 2
BandBottom(heap, n) == BandCentre(heap, n) + SubtreeHeight(heap, n) \div 2

\* the bands of a list of siblings follow one another downwards, gap apart
Stacked(heap, siblings, gap) ==
    \A k \in 1..(Len(siblings) - 1) :
        BandTop(heap, siblings[k + 1]) = BandBottom(heap, siblings[k]) + gap

\* the span of the bands of a group has the root's y at its middle
CentredOnRoot(heap, group) ==
    group # <<>> =>
        BandTop(heap, group[1]) + BandBottom(heap, group[Len(group)]) = 2 * heap[1].y

\* C27: before normalization the root is at the origin and on neither side;
\* on each side the bands of the top-level branches are stacked downwards in
\* document order, TOP_LEVEL_GAP apart, their span centred on the root's y;
\* the bands of the children of any other node are V_GAP apart.
C27_TopLevelStacking ==
    \A i \in Started :
        pc[i] \in Placed /\ rtree[i] # <<>> =>
            LET heap == rtree[i]
                sides == SplitTopLevelChildren(heap, heap[1].children)
            IN  /\ heap[1].x = 0
                /\ heap[1].y = 0
                /\ 1 \notin SideNodes(heap, sides.left) \cup SideNodes(heap, sides.right)
                /\ Stacked(heap, sides.left, TOP_LEVEL_GAP * UNIT)
                /\ Stacked(heap, sides.right, TOP_LEVEL_GAP * UNIT)
                /\ CentredOnRoot(heap, sides.left)
                /\ CentredOnRoot(heap, sides.right)
                /\ \A n \in 2..Len(heap) : Stacked(heap, heap[n].children, V_GAP * UNIT)

\* a placed tree with two top-level branches on one side, of unequal subtree
\* height, one of them with a child
C27_Witness ==
    /\ pc[1] = "placed"
    /\ LET heap == rtree[1]
           sides == SplitTopLevelChildren(heap, heap[1].children)
       IN  \E group \in {sides.left, sides.right} :
               /\ Len(group) >= 2
               /\ SubtreeHeight(heap, group[1]) # SubtreeHeight(heap, group[2])
               /\ \E k \in 1..Len(group) : heap[group[k]].children # <<>>
               /\ BandTop(heap, group[2]) = BandBottom(heap, group[1]) + TOP_LEVEL_GAP * UNIT


\* the siblings of a list lie one below the other in the final layout
TopToBottom(i, siblings) ==
    \A a, b \in 1..Len(siblings) :
        a < b => FinalNode(i, siblings[a]).y < FinalNode(i, siblings[b]).y

\* C28: in the final layout, siblings placed on the same side (the children
\* of a non-root node, or the top-level branches of one side) are in document
\* order from top to bottom: the earlier sibling has the smaller y.
C28_DocumentOrderDownwards ==
    \A i \in Started :
        HasLayout(i) =>
            LET heap == rtree[i]
                sides == SplitTopLevelChildren(heap, heap[1].children)
            IN  /\ TopToBottom(i, sides.left)
                /\ TopToBottom(i, sides.right)
                /\ \A n \in 2..Len(heap) : TopToBottom(i, heap[n].children)

\* a final layout with a non-root node whose two or more children have
\* subtrees of different heights
C28_Witness ==
    /\ HasLayout(1)
    /\ \E n \in 2..Len(rtree[1]) :
          LET kids == rtree[1][n].children
          IN  /\ Len(kids) >= 2
              /\ SubtreeHeight(rtree[1], kids[1]) # SubtreeHeight(rtree[1], kids[2])
              /\ FinalNode(1, kids[1]).y < FinalNode(1, kids[2]).y


\* the summed subtree heights of a group
GroupHeight(heap, group) ==
    SumSeq([c \in 1..Len(group) |-> SubtreeHeight(heap, group[c])])

\* C29: when the root has two or more children, the summed subtree heights
\* of the left and of the right group differ by no more than the largest
\* subtree height among the root's children.
C29_BalancedWithinOne ==
    \A i \in Started :
        pc[i] \in Decorated /\ rtree[i] # <<>> /\ Len(rtree[i][1].children) >= 2 =>
            LET heap == rtree[i]
                children == heap[1].children
                sides == SplitTopLevelChildren(heap, children)
                left_height == GroupHeight(heap, sides.left)
                right_height == GroupHeight(heap, sides.right)
                largest == MaxSeq([c \in 1..Len(children) |-> SubtreeHeight(heap, children[c])])
            IN  /\ left_height - right_height <= largest
                /\ right_height - left_height <= largest

\* a root with three or more children of unequal subtree heights, whose
\* groups differ by exactly the largest of them
C29_Witness ==
    /\ pc[1] = "decorated"
    /\ LET heap == rtree[1]
           children == heap[1].children
           sides == SplitTopLevelChildren(heap, children)
           largest == MaxSeq([c \in 1..Len(children) |-> SubtreeHeight(heap, children[c])])
       IN  /\ Len(children) >= 3
           /\ \E c \in 1..Len(children) : SubtreeHeight(heap, children[c]) < largest
           /\ GroupHeight(heap, sides.left) - GroupHeight(heap, sides.right) = largest


\* the content stored under a key, 0 when there is no row
Stored(rows, key) == IF GetArtifact(rows, key) = None THEN 0 ELSE GetArtifact(rows, key).content

\* call r arrives in this step
Arrives(r) == requests[r] = NotCalled /\ requests'[r] # NotCalled

\* C30: under every interleaving of the calls, a row of the artifact cache is
\* never replaced, and a call that arrives without force_refresh when its key
\* has a row returns that row's content, the first stored under the key, with
\* cached = true and without a call of the producer, whatever forced calls
\* have generated since.
C30_FirstWriteWins ==
    [][ /\ \A row \in artifacts : row \in artifacts'
        /\ \A r \in Req :
               Arrives(r) /\ ~requests'[r].call.force_refresh
                   /\ Stored(artifacts, KeyOf(requests'[r].call)) # 0 =>
                   /\ requests'[r].at = "returned"
                   /\ responses' = Append(responses,
                          [request |-> r,
                           content |-> Stored(artifacts, KeyOf(requests'[r].call)),
                           cached |-> TRUE])
                   /\ producer_calls' = producer_calls
                   /\ artifacts' = artifacts ]_vars

\* three calls for one key have returned in turn: one that generated and
\* stored the content, a forced one that generated newer content, and then an
\* unforced one that was given the first content as cached
C30_Witness ==
    \E a, b, c \in 1..Len(responses) :
        LET first == requests[responses[a].request].call
            forced == requests[responses[b].request].call
            later == requests[responses[c].request].call
        IN  /\ a < b
            /\ b < c
            /\ KeyOf(first) = KeyOf(forced)
            /\ KeyOf(forced) = KeyOf(later)
            /\ ~responses[a].cached
            /\ forced.force_refresh
            /\ ~responses[b].cached
            /\ responses[b].content # responses[a].content
            /\ ~later.force_refresh
            /\ responses[c].cached
            /\ responses[c].content = responses[a].content
            /\ Stored(artifacts, KeyOf(later)) = responses[a].content

=============================================================================
